---- MODULE Spec2Model ----
(***************************************************************************)
(* Model of the networking bridge of crankstart (src/network.rs): the      *)
(* HttpConnection handle (Rc<HttpConnectionInner>), its callback slots,    *)
(* the trampolines the host invokes, the teardown in Drop, and the         *)
(* one-shot access-request flow of Http::request_access.                   *)
(*                                                                         *)
(* The program is single threaded and re-entrant: the host calls the       *)
(* trampolines while the application is inside a native call.  The model   *)
(* keeps a stack of the closures that are executing; the application code  *)
(* that runs is the code of the top frame (or the top level when the stack *)
(* is empty).  A panic or a fault of undefined behaviour halts the model.  *)
(***************************************************************************)
EXTENDS Integers, Sequences, FiniteSets, TLC

\* ---------------------------------------------------------------- bounds
MaxClosures == 2      \* closures the application ever boxes into slots
MaxClones == 2        \* handles the application holds at one time
MaxDepth == 2         \* nested trampoline dispatches
MaxRequests == 3      \* request_access calls
MaxBuf == 2           \* longest destination buffer handed to read
MaxEvents == 2        \* host events recorded in `events`
MaxCloses == 2        \* close() calls counted in `closes`

\* ------------------------------------------------------- program constants
Kinds == {"header_received", "headers_read", "response",
          "request_complete", "connection_closed"}

SimpleKinds == Kinds \ {"header_received"}

\* the native entry that registers the trampoline of an event kind
SetterEntry(k) ==
    CASE k = "header_received"   -> "setHeaderReceivedCallback"
      [] k = "headers_read"      -> "setHeadersReadCallback"
      [] k = "response"          -> "setResponseCallback"
      [] k = "request_complete"  -> "setRequestCompleteCallback"
      [] k = "connection_closed" -> "setConnectionClosedCallback"

\* entries of the native playdate_http table the model uses
AllEntries == {"requestAccess", "newConnection", "getUserdata", "setUserdata",
               "close", "release", "read", "get", "post", "query",
               "setConnectTimeout", "setKeepAlive", "setByteRange", "setReadTimeout",
               "setReadBufferSize", "getResponseStatus"}
                   \cup {SetterEntry(k) : k \in Kinds}

\* entries the life of a connection goes through
ConnEntries == {"newConnection", "getUserdata", "setUserdata", "close", "release"}
                   \cup {SetterEntry(k) : k \in Kinds}

\* entries the operations of SpecRequest go through
RequestEntries == ConnEntries \cup {"requestAccess", "read"}

\* entries the requests and the narrow setters go through
HttpEntries == {"newConnection", "setUserdata", "get", "post", "query", "read",
                "setConnectTimeout", "setKeepAlive", "setByteRange", "setReadTimeout",
                "setReadBufferSize", "getResponseStatus"}

\* the table is fixed by the host: every entry present, or one of `entries` absent
ApiConfigs(entries) == {AllEntries} \cup {AllEntries \ {e} : e \in entries}

\* accessReply
kAccessAsk == "kAccessAsk"
kAccessDeny == "kAccessDeny"
kAccessAllow == "kAccessAllow"
AccessReplies == {kAccessAsk, kAccessDeny, kAccessAllow}

\* text arguments: byte strings, 0 is the NUL byte
Bytes == {0, 1}
Strings == {<<>>} \cup {<<a>> : a \in Bytes} \cup {<<a, b>> : a, b \in Bytes}

\* header and body buffers, Option<&[u8]>: {} is None, {d} is Some(d)
Buffers == {<<>>, <<1>>, <<0>>, <<1, 0>>}
OptBuffers == {{}} \cup {{d} : d \in Buffers}
OptBodies == {{}, {<<>>}, {<<0>>}}

\* methods handed to query
Methods == {<<1>>, <<0, 1>>}

\* u32 arguments: hi is bit 31 and lo the 31 bits below it, so the value is
\* hi * 2^31 + lo
U32Samples == [hi : {0, 1}, lo : {0, 1, 2147483647}]
\* Option<&str>: {} is None, {s} is Some(s)
OptStrings == {{}} \cup {{s} : s \in Strings}

VARIABLES
    api,        \* entries of the native table that are present (non-null)
    NETWORK_ENABLE_CALLBACK, \* the static of that name: 0 for None, else the
                \*   boxed closure it holds
    wifi,       \* the Wi-Fi enable closures: how often each ran, which were
                \*   dropped, which are executing, the native setEnabled calls,
                \*   the firings of the host, what the last call returned
    host,       \* the host: the address its newConnection returns (ptr) and
                \*   the status its getResponseStatus reports (status)
    plan,       \* the call the application makes under SpecHttp, with the code
                \*   the host answers it with, see Plans
    raw_connection, \* HttpConnectionInner.raw_connection, 0 before from_raw
    conn,       \* native connection: "none", "open", "released"
    userdata,   \* native userdata of the connection: "null" or "weak"
    reg,        \* reg[k]: a trampoline is registered natively for kind k
    inner,      \* Rc<HttpConnectionInner>: "none", "live", "dropping", "freed"
    strong,     \* strong count of the Rc
    weak,       \* weak tokens handed out with Weak::into_raw, not reclaimed
    handles,    \* HttpConnection values the application owns
    slots,      \* HttpCallbackSlots: slots[k] = 0 (None) or a closure id
    nextId,     \* id of the next closure the application boxes
    alive,      \* closure boxes that are allocated
    stack,      \* closures executing, outermost first: [kind, id]
    borrowed,   \* RefCell borrow flag of the slot table
    td,         \* position of do_drop: "idle", the native call it is in, "done"
    tdlog,      \* steps the teardown performed, in order
    creating,   \* inside Http::new_connection
    supplied,   \* supplied[k]: the last value a setter got for k was Some
    staleFired, \* a trampoline ran and found no connection to dispatch to
    fault,      \* "none", or the panic / undefined behaviour that halted
    observe,    \* the results of the operations are recorded in `last`
    closes,     \* native close calls issued by HttpConnection::close
    ran,        \* closures the trampolines invoked
    events,     \* host events that reached a trampoline, in order
    last,       \* the last operation that returned, see Result
    accCb,      \* accCb[r]: request r was made with Some(callback)
    accReply,   \* accReply[r]: reply of the native requestAccess, or "none"
    accBox,     \* accBox[r]: AccessRequestState of r: "none", "allocated", "dropped"
    accDrops,   \* accDrops[r]: times the state of r was reclaimed with Box::from_raw
    accHost,    \* accHost[r]: the host's side of r: "none", "pending", or the
                \*   decision it called the trampoline with, "true" / "false"
    accCalls,   \* accCalls[r]: invocations of the closure of request r
    accArg,     \* accArg[r]: what the closure of r was called with, or "none"
    nextReq,    \* number of the next request_access call
    peers,      \* under SpecTwo: peers[c] is the slot table and the native
                \*   registrations of connection c
    invoked,    \* under SpecTwo: what the last trampoline invoked, <<>> for nothing
    NETWORK,    \* static mut NETWORK: the three pointers of the stored table
    handlesOf,  \* handlesOf[o]: Rc clones of sound object o the application holds
    freed,      \* sound objects whose native free function was called
    channel,    \* the SoundChannel and its native channel, see NewChannel
    player      \* the SamplePlayer and its native player, see NewPlayer

connVars == <<conn, userdata, reg, inner, strong, weak, handles, slots, nextId,
              alive, stack, borrowed, td, tdlog, creating, supplied, staleFired>>
accVars == <<accCb, accReply, accBox, accDrops, accHost, accCalls, accArg, nextReq>>
\* what is recorded when `observe` holds, besides `last`
obsVars == <<closes, ran, events>>
vars == <<api, host, plan, NETWORK_ENABLE_CALLBACK, wifi, handlesOf, freed, channel, player, peers, invoked, NETWORK, observe, obsVars, raw_connection, connVars, accVars, fault, last>>

\* everything but the records of the host events: that a trampoline ran, and
\* that it found no connection
progVars == <<api, host, plan, NETWORK_ENABLE_CALLBACK, wifi, handlesOf, freed, channel, player, peers, invoked, NETWORK, observe, closes, ran, raw_connection, conn, userdata, reg, inner,
              strong, weak, handles, slots, nextId, alive, stack, borrowed, td, tdlog,
              creating, supplied, accVars, fault, last>>

\* what an operation returned: res is "ok" or the kind of the error, absent says
\* that a native entry the operation needs was null, native that the operation
\* called its native function, val is the value of an Ok(n) or the native code
Result(op, res, absent, native, val) ==
    [op |-> op, res |-> res, absent |-> absent, native |-> native, val |-> val]

\* connections of SpecTwo
Conns == {1, 2}

\* HttpCallbackSlots::default() and no trampoline registered
NoTable == [slots |-> [k \in Kinds |-> 0], reg |-> [k \in Kinds |-> FALSE]]

\* Network::null(): the three pointers are null (0)
Network_null == [raw_network |-> 0, raw_http |-> 0, raw_tcp |-> 0]

\* sound objects behind an Rc: effects (Overdrive, ...), sources (Synth) and
\* audio samples
Effects == {"e1", "e2"}
Sources == {"s1"}
Samples == {"a1", "a2"}
SoundObjects == Effects \cup Sources \cup Samples

\* closures the application supplies to set_enabled_with_callback
MaxCallbacks == 3

\* invocations of wifi_enable_callback by the host
MaxFirings == 3

\* calls of set_enabled and set_enabled_with_callback that reach the native setEnabled
MaxCalls == 3

EnableCallbacks == 1..MaxCallbacks

\* `static mut NETWORK_ENABLE_CALLBACK: Option<Box<EnableCallback>> = None`
None_pending == 0

\* no call made yet, the host has no trampoline, no closure supplied.
\* log[c]: the flag closure c was supplied with to set_enabled_with_callback
\* and what the call returned; res: what the last set_enabled returned
NewWifi ==
    [runs |-> [c \in EnableCallbacks |-> 0], dropped |-> {}, stack |-> <<>>,
     calls |-> 0, withCallback |-> 0, fired |-> 0, log |-> <<>>, res |-> "none"]


\* SoundChannel::new: a live native channel with nothing attached, and empty
\* vectors; dropped: the SoundChannel value was dropped; droplog: the native
\* calls its drop made
NewChannel ==
    [live |-> TRUE, effects |-> <<>>, sources |-> <<>>, attached |-> {},
     dropped |-> FALSE, droplog |-> <<>>]

\* SamplePlayer::new: a live native player with no sample; sample: the field
\* of the SamplePlayer, "none" for None; assigned: the sample the native
\* player was given with setSample; setting: the argument of the set_sample
\* call that has stored its clone and not yet called the native setSample;
\* dropped: the SamplePlayer was dropped
NewPlayer ==
    [live |-> TRUE, sample |-> "none", assigned |-> "none", setting |-> "none",
     dropped |-> FALSE]

\* the state before the first operation
StartState ==
    /\ conn = "none"
    /\ raw_connection = 0
    /\ closes = 0
    /\ ran = 0
    /\ events = <<>>
    /\ userdata = "null"
    /\ reg = [k \in Kinds |-> FALSE]
    /\ inner = "none"
    /\ strong = 0
    /\ weak = 0
    /\ handles = 0
    /\ slots = [k \in Kinds |-> 0]
    /\ nextId = 1
    /\ alive = {}
    /\ stack = <<>>
    /\ borrowed = FALSE
    /\ td = "idle"
    /\ tdlog = <<>>
    /\ creating = FALSE
    /\ supplied = [k \in Kinds |-> FALSE]
    /\ staleFired = FALSE
    /\ fault = "none"
    /\ last = Result("none", "ok", FALSE, FALSE, 0)
    /\ accCb = [r \in 1..MaxRequests |-> FALSE]
    /\ accReply = [r \in 1..MaxRequests |-> "none"]
    /\ accBox = [r \in 1..MaxRequests |-> "none"]
    /\ accDrops = [r \in 1..MaxRequests |-> 0]
    /\ accHost = [r \in 1..MaxRequests |-> "none"]
    /\ accCalls = [r \in 1..MaxRequests |-> 0]
    /\ accArg = [r \in 1..MaxRequests |-> "none"]
    /\ nextReq = 1
    /\ peers = [c \in Conns |-> NoTable]
    /\ invoked = <<>>
    /\ NETWORK = Network_null
    /\ NETWORK_ENABLE_CALLBACK = None_pending
    /\ wifi = NewWifi
    /\ handlesOf = [o \in SoundObjects |-> 1]
    /\ freed = {}
    /\ channel = NewChannel
    /\ player = NewPlayer

\* addresses the host may return from newConnection (0 is the null pointer)
HostPtrs == {1, 2}

\* statuses the host may report for a response
StatusCodes == {0, 200, 404}

\* the hosts the operations are run against
Hosts == [ptr : HostPtrs, status : StatusCodes]

\* the specifications that make no planned call
NoPlan == [op |-> "none"]

\* the host of the specifications that do not look at addresses and statuses
DefaultHost == [ptr |-> 1, status |-> 200]

\* Init of Spec: the entries a connection uses may be absent
Init ==
    /\ StartState
    /\ host = DefaultHost
    /\ plan = NoPlan
    /\ api \in ApiConfigs(ConnEntries)
    /\ observe = FALSE

\* Init of SpecRequest: any entry may be absent, results are recorded
InitRequest ==
    /\ StartState
    /\ host = DefaultHost
    /\ plan = NoPlan
    /\ api \in ApiConfigs(RequestEntries)
    /\ observe = TRUE

\* Init of SpecAccess: requestAccess may be absent, results are recorded
InitAccess ==
    /\ StartState
    /\ host = DefaultHost
    /\ plan = NoPlan
    /\ api \in ApiConfigs({"requestAccess"})
    /\ observe = TRUE

\* the operation returns r
Returns(r) == last' = IF observe THEN r ELSE last

\* CString::new fails on an embedded NUL byte
CStringNew_ok(s) == \A i \in 1..Len(s) : s[i] # 0

\* a conversion that lets an embedded NUL through
optional_cstring_unchecked(o) == TRUE


\* optional_cstring: None is fine, Some(s) is converted with CString::new
optional_cstring_ok(o) == \A s \in o : CStringNew_ok(s)

\* ------------------------------------------------------------ connection

\* the code of the application runs: at the top level with a handle in hand,
\* or as the body of the closure on top of the stack
AppCanAct ==
    /\ fault = "none"
    /\ inner = "live"
    /\ td = "idle"
    /\ ~creating
    /\ (handles > 0 \/ stack # <<>>)

\* closures that are executing
Running == {stack[i].id : i \in 1..Len(stack)}

\* a reference count that starts the teardown whenever a reference goes away
DropStrong_of_any_reference ==
    /\ strong' = strong - 1
    /\ inner' = "dropping"
    /\ td' = "getUserdata"

\* the last strong reference going away starts Drop for HttpConnectionInner
DropStrong ==
    /\ strong' = strong - 1
    /\ IF strong - 1 = 0
       THEN inner' = "dropping" /\ td' = "getUserdata"
       ELSE UNCHANGED <<inner, td>>

\* a from_raw that installs no token
null_userdata == "null"

\* the userdata from_raw installs: Weak::into_raw(Rc::downgrade(&inner))
Weak_into_raw == "weak"

\* HttpConnection::from_raw, after newConnection returned a connection
from_raw ==
    /\ conn' = "open"
    /\ raw_connection' = host.ptr
    /\ weak' = weak + 1
    /\ IF "setUserdata" \in api
       THEN /\ inner' = "live"
            /\ strong' = 1
            /\ userdata' = Weak_into_raw
            /\ handles' = 1
            /\ Returns(Result("new_connection", "ok", FALSE, TRUE, 0))
            /\ UNCHANGED <<td, creating>>
       ELSE \* the `?` returns Err: the Rc just made is dropped on the way out
            /\ inner' = "dropping"
            /\ strong' = 0
            /\ td' = "getUserdata"
            /\ creating' = TRUE
            /\ UNCHANGED <<userdata, handles, last>>

\* Http::new_connection(server, port, use_ssl); hostNull: newConnection gives null
new_connection(server, hostNull) ==
    /\ fault = "none"
    /\ inner = "none"
    /\ conn = "none"
    /\ IF server = <<>> \/ ~CStringNew_ok(server)
       THEN /\ Returns(Result("new_connection", "argument_error", FALSE, FALSE, 0))
            /\ UNCHANGED <<conn, raw_connection, weak, inner, strong, userdata, handles,
                           td, creating>>
       ELSE IF "newConnection" \notin api
       THEN /\ Returns(Result("new_connection", "config_error", TRUE, FALSE, 0))
            /\ UNCHANGED <<conn, raw_connection, weak, inner, strong, userdata, handles,
                           td, creating>>
       ELSE IF hostNull
       THEN /\ Returns(Result("new_connection", "protocol_violation", FALSE, TRUE, 0))
            /\ UNCHANGED <<conn, raw_connection, weak, inner, strong, userdata, handles,
                           td, creating>>
       ELSE from_raw
    /\ UNCHANGED <<api, host, plan, NETWORK_ENABLE_CALLBACK, wifi, handlesOf, freed, channel, player, peers, invoked, NETWORK, observe, obsVars, reg, slots, nextId, alive, stack, borrowed,
                   tdlog, supplied, fault, accVars, staleFired>>

\* HttpConnection::clone (derive(Clone) on the Rc)
Clone ==
    /\ AppCanAct
    /\ handles < MaxClones
    /\ handles' = handles + 1
    /\ strong' = strong + 1
    /\ UNCHANGED <<api, host, plan, NETWORK_ENABLE_CALLBACK, wifi, handlesOf, freed, channel, player, peers, invoked, NETWORK, observe, obsVars, raw_connection, conn, userdata, reg, inner, weak, slots, nextId, alive, stack,
                   borrowed, td, tdlog, creating, supplied, fault, last, accVars, staleFired>>

\* the application drops one of its handles
DropHandle ==
    /\ AppCanAct
    /\ handles > 0
    /\ handles' = handles - 1
    /\ DropStrong
    /\ UNCHANGED <<api, host, plan, NETWORK_ENABLE_CALLBACK, wifi, handlesOf, freed, channel, player, peers, invoked, NETWORK, observe, obsVars, raw_connection, conn, userdata, reg, weak, slots, nextId, alive, stack,
                   borrowed, tdlog, creating, supplied, fault, last, accVars, staleFired>>

\* ---------------------------------------------------------------- teardown

\* a teardown that returns after close, without release
do_drop_next_skips_release(step) ==
    CASE step = "getUserdata" -> "setUserdata"
      [] step = "setUserdata" -> "close"
      [] step = "close"       -> "done"
      [] step = "release"     -> "done"

\* a teardown that closes before it clears the userdata
do_drop_next_close_first(step) ==
    CASE step = "getUserdata" -> "close"
      [] step = "close"       -> "setUserdata"
      [] step = "setUserdata" -> "release"
      [] step = "release"     -> "done"

\* do_drop: the native call that follows `step`
do_drop_next(step) ==
    CASE step = "getUserdata" -> "setUserdata"
      [] step = "setUserdata" -> "close"
      [] step = "close"       -> "release"
      [] step = "release"     -> "done"

\* a teardown that gives up on an absent entry and returns a configuration error
TeardownPanic_returns_error ==
    /\ td' = "done"
    /\ creating' = FALSE
    /\ Returns(Result("drop", "config_error", TRUE, FALSE, 0))
    /\ UNCHANGED <<api, host, plan, NETWORK_ENABLE_CALLBACK, wifi, handlesOf, freed, channel, player, peers, invoked, NETWORK, observe, obsVars, raw_connection, conn, userdata, reg, inner, strong, weak, handles,
                   slots, nextId, alive, stack, borrowed, tdlog, supplied, fault,
                   accVars, staleFired>>


\* do_drop(...).unwrap() on an absent entry
TeardownPanic ==
    /\ fault' = "panic:teardown"
    /\ UNCHANGED <<api, host, plan, NETWORK_ENABLE_CALLBACK, wifi, handlesOf, freed, channel, player, peers, invoked, NETWORK, observe, obsVars, raw_connection, connVars, last, accVars>>

\* getUserdata, then Weak::from_raw(userdata) is dropped
do_drop_getUserdata ==
    /\ fault = "none"
    /\ td = "getUserdata"
    /\ IF "getUserdata" \notin api
       THEN TeardownPanic
       ELSE IF userdata = "null"
       THEN \* Weak::from_raw(null) is undefined behaviour: it may fault, or go on
            \/ /\ fault' = "ub:null_weak"
               /\ UNCHANGED <<api, host, plan, NETWORK_ENABLE_CALLBACK, wifi, handlesOf, freed, channel, player, peers, invoked, NETWORK, observe, obsVars, raw_connection, connVars, last, accVars>>
            \/ /\ td' = do_drop_next("getUserdata")
               /\ tdlog' = tdlog \o <<"getUserdata", "reclaim_null">>
               /\ UNCHANGED <<api, host, plan, NETWORK_ENABLE_CALLBACK, wifi, handlesOf, freed, channel, player, peers, invoked, NETWORK, observe, obsVars, raw_connection, conn, userdata, reg, inner, strong, weak, handles,
                              slots, nextId, alive, stack, borrowed, creating, supplied,
                              fault, last, accVars, staleFired>>
       ELSE /\ weak' = weak - 1
            /\ td' = do_drop_next("getUserdata")
            /\ tdlog' = tdlog \o <<"getUserdata", "reclaim">>
            /\ UNCHANGED <<api, host, plan, NETWORK_ENABLE_CALLBACK, wifi, handlesOf, freed, channel, player, peers, invoked, NETWORK, observe, obsVars, raw_connection, conn, userdata, reg, inner, strong, handles, slots,
                           nextId, alive, stack, borrowed, creating, supplied, fault,
                           last, accVars, staleFired>>

\* setUserdata(conn, null)
do_drop_setUserdata ==
    /\ fault = "none"
    /\ td = "setUserdata"
    /\ IF "setUserdata" \notin api
       THEN TeardownPanic
       ELSE /\ userdata' = "null"
            /\ td' = do_drop_next("setUserdata")
            /\ tdlog' = Append(tdlog, "setUserdata")
            /\ UNCHANGED <<api, host, plan, NETWORK_ENABLE_CALLBACK, wifi, handlesOf, freed, channel, player, peers, invoked, NETWORK, observe, obsVars, raw_connection, conn, reg, inner, strong, weak, handles, slots, nextId,
                           alive, stack, borrowed, creating, supplied, fault, last,
                           accVars, staleFired>>

\* close(conn)
do_drop_close ==
    /\ fault = "none"
    /\ td = "close"
    /\ IF "close" \notin api
       THEN TeardownPanic
       ELSE /\ td' = do_drop_next("close")
            /\ tdlog' = Append(tdlog, "close")
            /\ UNCHANGED <<api, host, plan, NETWORK_ENABLE_CALLBACK, wifi, handlesOf, freed, channel, player, peers, invoked, NETWORK, observe, obsVars, raw_connection, conn, userdata, reg, inner, strong, weak, handles,
                           slots, nextId, alive, stack, borrowed, creating, supplied,
                           fault, last, accVars, staleFired>>

\* release(conn); drop returns and the fields (the slot table) are dropped
do_drop_release ==
    /\ fault = "none"
    /\ td = "release"
    /\ IF "release" \notin api
       THEN TeardownPanic
       ELSE /\ conn' = "released"
            /\ td' = do_drop_next("release")
            /\ tdlog' = Append(tdlog, "release")
            /\ inner' = "freed"
            /\ slots' = [k \in Kinds |-> 0]
            /\ alive' = {}
            /\ creating' = FALSE
            /\ Returns(IF creating
                       THEN Result("new_connection", "config_error", TRUE, TRUE, 0)
                       ELSE last)
            /\ UNCHANGED <<api, host, plan, NETWORK_ENABLE_CALLBACK, wifi, handlesOf, freed, channel, player, peers, invoked, NETWORK, observe, obsVars, raw_connection, userdata, reg, strong, weak, handles, nextId, stack,
                           borrowed, supplied, fault, accVars, staleFired>>

\* ---------------------------------------------------------- callback setters

\* the function that sets the slot of an event kind
SetterOp(k) ==
    IF k = "header_received" THEN "on_header_received" ELSE "configure_simple_callback"

\* a setter that registers the trampoline whatever the slot holds
register_always(new) == TRUE

\* `let register = slot_ref.is_some()`: new is the slot's new content
register(new) == new # 0

\* an assignment that forgets the closure the slot held
Box_leak(old) == {}

\* `*slot_ref = callback`: the Box the slot held is dropped by the assignment
Box_drop(old) == {old}


\* the slot is assigned under the mutable borrow: the closure it held is
\* dropped by the assignment, then the trampoline is registered or removed
\* through the native setter, when the table has one
SetSlot(k, some) ==
    IF borrowed
    THEN \* borrow_mut() on a table that is borrowed: BorrowMutError
         /\ fault' = "panic:borrow"
         /\ UNCHANGED <<slots, alive, nextId, supplied, reg, last>>
    ELSE LET new == IF some THEN nextId ELSE 0 IN
         /\ slots' = [slots EXCEPT ![k] = new]
         /\ alive' = (alive \ Box_drop(slots[k])) \cup (IF some THEN {nextId} ELSE {})
         /\ nextId' = IF some THEN nextId + 1 ELSE nextId
         /\ supplied' = [supplied EXCEPT ![k] = some]
         /\ IF SetterEntry(k) \in api
            THEN /\ reg' = [reg EXCEPT ![k] = register(new)]
                 /\ Returns(Result(SetterOp(k), "ok", FALSE, TRUE, 0))
            ELSE /\ reg' = reg
                 /\ Returns(Result(SetterOp(k), "config_error", TRUE, FALSE, 0))
         /\ UNCHANGED fault

\* HttpConnection::configure_simple_callback, reached through on_headers_read,
\* on_response, on_request_complete and on_connection_closed
configure_simple_callback(k, some) ==
    /\ AppCanAct
    /\ k \in SimpleKinds
    /\ some => nextId <= MaxClosures
    /\ SetSlot(k, some)
    /\ UNCHANGED <<api, host, plan, NETWORK_ENABLE_CALLBACK, wifi, handlesOf, freed, channel, player, peers, invoked, NETWORK, observe, obsVars, raw_connection, conn, userdata, inner, strong, weak, handles, stack, borrowed,
                   td, tdlog, creating, accVars, staleFired>>

\* HttpConnection::on_header_received
on_header_received(some) ==
    /\ AppCanAct
    /\ some => nextId <= MaxClosures
    /\ SetSlot("header_received", some)
    /\ UNCHANGED <<api, host, plan, NETWORK_ENABLE_CALLBACK, wifi, handlesOf, freed, channel, player, peers, invoked, NETWORK, observe, obsVars, raw_connection, conn, userdata, inner, strong, weak, handles, stack, borrowed,
                   td, tdlog, creating, accVars, staleFired>>

\* ------------------------------------------------------------- trampolines

\* an upgrade that does not look at the strong count
Weak_upgrade_ignores_count(s) == TRUE

\* Weak::upgrade on a token of an Rc whose strong count is s
Weak_upgrade(s) == s > 0

\* a lookup that never finds the connection
connection_from_userdata_none == FALSE

\* connection_from_userdata: TRUE when it yields Some(connection)
connection_from_userdata ==
    /\ "getUserdata" \in api
    /\ userdata # "null"
    /\ Weak_upgrade(strong)

\* a dispatch that keeps the borrow while the closure runs
borrow_held_at_invoke == TRUE

\* the borrow of the slot table at the moment the closure is invoked:
\* `drop(callbacks)` has released it
borrow_at_invoke == FALSE

\* a connection_from_userdata that lets the rebuilt Weak drop on return
Weak_dropped_on_return(w) == w - 1

\* the weak count after connection_from_userdata rebuilt the Weak of the token:
\* ManuallyDrop keeps the function from releasing it
ManuallyDrop_weak(w) == w

\* an accessor that takes the closure out of its slot
Option_take(c) == 0

\* Option::as_mut in the accessors: the closure stays in its slot
as_mut(c) == c


\* a dispatch that runs the closure on a reference it does not own
Rc_borrowed(s) == s

\* Weak::upgrade succeeded: the trampoline owns one more strong reference
\* for as long as the closure runs
Rc_upgraded(s) == s + 1

\* the body shared by run_simple_callback and run_header_callback
Dispatch(k) ==
    /\ fault = "none"
    /\ conn = "open"
    /\ reg[k]
    /\ Len(stack) < MaxDepth
    /\ observe => Len(events) < MaxEvents
    /\ events' = IF observe THEN Append(events, k) ELSE events
    /\ IF ~connection_from_userdata
       THEN \* no connection: the trampoline returns without doing anything
            /\ staleFired' = TRUE
            /\ UNCHANGED progVars
       ELSE IF borrowed
       THEN /\ fault' = "panic:borrow"
            /\ UNCHANGED <<api, host, plan, NETWORK_ENABLE_CALLBACK, wifi, handlesOf, freed, channel, player, peers, invoked, NETWORK, observe, closes, ran, raw_connection, connVars, last,
                           accVars>>
       ELSE IF slots[k] = 0
       THEN \* the connection was resolved and is dropped again
            /\ weak' = ManuallyDrop_weak(weak)
            /\ UNCHANGED <<api, host, plan, NETWORK_ENABLE_CALLBACK, wifi, handlesOf, freed, channel, player, peers, invoked, NETWORK, observe, closes, ran, raw_connection, conn, userdata,
                           reg, inner, strong, handles, slots, nextId, alive, stack,
                           borrowed, td, tdlog, creating, supplied, fault, last, accVars,
                           staleFired>>
       ELSE /\ stack' = Append(stack, [kind |-> k, id |-> slots[k]])
            /\ slots' = [slots EXCEPT ![k] = as_mut(slots[k])]
            /\ strong' = Rc_upgraded(strong)
            /\ weak' = ManuallyDrop_weak(weak)
            /\ borrowed' = borrow_at_invoke
            /\ ran' = IF observe THEN ran + 1 ELSE ran
            /\ UNCHANGED <<api, host, plan, NETWORK_ENABLE_CALLBACK, wifi, handlesOf, freed, channel, player, peers, invoked, NETWORK, observe, closes, raw_connection, conn, userdata, reg,
                           inner, handles, nextId, alive, td, tdlog, creating,
                           supplied, fault, last, accVars, staleFired>>

\* the host calls the trampoline of a simple event kind
run_simple_callback(k) ==
    /\ k \in SimpleKinds
    /\ Dispatch(k)

\* the host calls http_header_received_trampoline(conn, key, value)
run_header_callback(keyNull, valueNull) ==
    IF keyNull \/ valueNull
    THEN /\ fault = "none"
         /\ conn = "open"
         /\ reg["header_received"]
         /\ UNCHANGED vars
    ELSE Dispatch("header_received")

\* the closure on top of the stack returns to its trampoline, which drops the
\* connection it resolved
Return ==
    /\ fault = "none"
    /\ td = "idle"
    /\ stack # <<>>
    /\ stack' = SubSeq(stack, 1, Len(stack) - 1)
    /\ borrowed' = FALSE
    /\ DropStrong
    /\ UNCHANGED <<api, host, plan, NETWORK_ENABLE_CALLBACK, wifi, handlesOf, freed, channel, player, peers, invoked, NETWORK, observe, obsVars, raw_connection, conn, userdata, reg, weak, handles, slots, nextId, alive,
                   tdlog, creating, supplied, fault, last, accVars, staleFired>>

\* the host has an event of kind k and no trampoline registered for it: it
\* has nothing to call
unregistered_event(k) ==
    /\ fault = "none"
    /\ conn = "open"
    /\ ~reg[k]
    /\ observe /\ Len(events) < MaxEvents
    /\ events' = Append(events, k)
    /\ UNCHANGED <<progVars, staleFired>>

\* a closure that is executing after its box was dropped reads freed memory:
\* undefined behaviour, which may fault at any point (or go unnoticed)
closure_use_after_free ==
    /\ fault = "none"
    /\ \E c \in Running : c \notin alive
    /\ fault' = "ub:closure_freed"
    /\ UNCHANGED <<api, host, plan, NETWORK_ENABLE_CALLBACK, wifi, handlesOf, freed, channel, player, peers, invoked, NETWORK, observe, obsVars, raw_connection, connVars, last, accVars>>


\* --------------------------------------------------------------- NetErr

\* crankstart_sys::PDNetErr, the codes of the host's API
PDNetErr ==
    [NET_OK |-> 0, NET_NO_DEVICE |-> -1, NET_BUSY |-> -2, NET_WRITE_ERROR |-> -3,
     NET_WRITE_BUSY |-> -4, NET_WRITE_TIMEOUT |-> -5, NET_READ_ERROR |-> -6,
     NET_READ_BUSY |-> -7, NET_READ_TIMEOUT |-> -8, NET_READ_OVERFLOW |-> -9,
     NET_FRAME_ERROR |-> -10, NET_BAD_RESPONSE |-> -11, NET_ERROR_RESPONSE |-> -12,
     NET_RESET_TIMEOUT |-> -13, NET_BUFFER_TOO_SMALL |-> -14,
     NET_UNEXPECTED_RESPONSE |-> -15, NET_NOT_CONNECTED_TO_AP |-> -16,
     NET_NOT_IMPLEMENTED |-> -17, NET_CONNECTION_CLOSED |-> -18]

\* the values a native function of type PDNetErr returns
NetErrCodes == {PDNetErr[n] : n \in DOMAIN PDNetErr}

\* a diagnostic tag: a fixed text, or Unknown(n)
Named(text) == [name |-> text, n |-> 0]
Unknown(other) == [name |-> "Unknown", n |-> other]

\* a match that has the NET_OK arm only
MatchArms_only_ok == << [variant |-> "NET_OK", text |-> "NET_OK"] >>


\* the arms of the match in describe_net_err, in order: the variant the value
\* is compared with and the text the arm yields
MatchArms ==
    << [variant |-> "NET_OK", text |-> "NET_OK"],
       [variant |-> "NET_NO_DEVICE", text |-> "NET_NO_DEVICE"],
       [variant |-> "NET_BUSY", text |-> "NET_BUSY"],
       [variant |-> "NET_WRITE_ERROR", text |-> "NET_WRITE_ERROR"],
       [variant |-> "NET_WRITE_BUSY", text |-> "NET_WRITE_BUSY"],
       [variant |-> "NET_WRITE_TIMEOUT", text |-> "NET_WRITE_TIMEOUT"],
       [variant |-> "NET_READ_ERROR", text |-> "NET_READ_ERROR"],
       [variant |-> "NET_READ_BUSY", text |-> "NET_READ_BUSY"],
       [variant |-> "NET_READ_TIMEOUT", text |-> "NET_READ_TIMEOUT"],
       [variant |-> "NET_READ_OVERFLOW", text |-> "NET_READ_OVERFLOW"],
       [variant |-> "NET_FRAME_ERROR", text |-> "NET_FRAME_ERROR"],
       [variant |-> "NET_BAD_RESPONSE", text |-> "NET_BAD_RESPONSE"],
       [variant |-> "NET_ERROR_RESPONSE", text |-> "NET_ERROR_RESPONSE"],
       [variant |-> "NET_RESET_TIMEOUT", text |-> "NET_RESET_TIMEOUT"],
       [variant |-> "NET_BUFFER_TOO_SMALL", text |-> "NET_BUFFER_TOO_SMALL"],
       [variant |-> "NET_UNEXPECTED_RESPONSE", text |-> "NET_UNEXPECTED_RESPONSE"],
       [variant |-> "NET_NOT_CONNECTED_TO_AP", text |-> "NET_NOT_CONNECTED_TO_AP"],
       [variant |-> "NET_NOT_IMPLEMENTED", text |-> "NET_NOT_IMPLEMENTED"],
       [variant |-> "NET_CONNECTION_CLOSED", text |-> "NET_CONNECTION_CLOSED"] >>

\* a translation that knows no code
describe_net_err_generic(value) == Unknown(value)

\* describe_net_err(value): the first arm whose variant has the value, or Unknown
describe_net_err(value) ==
    LET hits == {i \in 1..Len(MatchArms) : PDNetErr[MatchArms[i].variant] = value}
    IN  IF hits = {}
        THEN Unknown(value)
        ELSE Named(MatchArms[CHOOSE i \in hits : \A j \in hits : i <= j].text)

\* {:?} of a PDNetErr: the name of the variant
Debug_PDNetErr(err) == Named(CHOOSE n \in DOMAIN PDNetErr : PDNetErr[n] = err)

\* what an error carries: the name of the operation and the tag of the code
ErrInfo(context, tag) == [context |-> context, tag |-> tag]
NoErr == ErrInfo("", Named(""))

\* an ensure_net_ok that lets every code through
ensure_net_ok_always(err) == TRUE

\* ensure_net_ok: Ok exactly for NET_OK
ensure_net_ok(err) == err = PDNetErr.NET_OK

\* a Result with the arguments of the call (args), what the native function
\* was called with (passed) and what the error carries (err)
CallResult(r, args, passed, err) ==
    [op |-> r.op, res |-> r.res, absent |-> r.absent, native |-> r.native, val |-> r.val,
     args |-> args, passed |-> passed, err |-> err]

\* ---------------------------------------------------------------- requests

\* a close that gives the native connection back as well
close_and_release ==
    /\ AppCanAct
    /\ observe => closes < MaxCloses
    /\ closes' = IF observe /\ "close" \in api THEN closes + 1 ELSE closes
    /\ Returns(Result("close", "ok", "close" \notin api, "close" \in api, 0))
    /\ conn' = "released"
    /\ UNCHANGED <<api, host, plan, NETWORK_ENABLE_CALLBACK, wifi, handlesOf, freed, channel, player, peers, invoked, NETWORK, observe, ran, events, raw_connection, userdata, reg,
                   inner, strong, weak, handles, slots, nextId, alive, stack, borrowed, td,
                   tdlog, creating, supplied, staleFired, fault, accVars>>

\* HttpConnection::close: the native close, when the table has one
close ==
    /\ AppCanAct
    /\ observe => closes < MaxCloses
    /\ closes' = IF observe /\ "close" \in api THEN closes + 1 ELSE closes
    /\ Returns(Result("close", "ok", "close" \notin api, "close" \in api, 0))
    /\ UNCHANGED <<api, host, plan, NETWORK_ENABLE_CALLBACK, wifi, handlesOf, freed, channel, player, peers, invoked, NETWORK, observe, ran, events, raw_connection, connVars, fault, accVars>>

\* lengths of the buffers handed to read (len_to_c_uint accepts every length
\* up to u32::MAX, so every length within the bound)
BufLens == 0..MaxBuf

\* what the native read may return for a buffer of len bytes: a count, a code
\* of PDNetErr, or a code this version of the enum does not know (-19)
NativeRead(len) == (-19..-1) \cup {n \in 0..MaxBuf : n <= len}

\* HttpConnection::read(buffer); r is the result of the native read
read(len, r) ==
    /\ AppCanAct
    /\ len \in BufLens
    /\ r \in NativeRead(len)
    /\ IF len = 0
       THEN \* assert!(!buffer.is_empty())
            /\ fault' = "panic:read_assert"
            /\ UNCHANGED last
       ELSE /\ UNCHANGED fault
            /\ Returns(IF "read" \notin api
                         THEN CallResult(Result("read", "config_error", TRUE, FALSE, 0),
                                         <<len>>, <<>>, NoErr)
                       ELSE IF r >= 0
                         THEN CallResult(Result("read", "ok", FALSE, TRUE, r),
                                         <<len>>, <<len>>, NoErr)
                       ELSE CallResult(Result("read", "native_error", FALSE, TRUE, r),
                                       <<len>>, <<len>>,
                                       ErrInfo("http.read", describe_net_err(r))))
    /\ UNCHANGED <<api, host, plan, NETWORK_ENABLE_CALLBACK, wifi, handlesOf, freed, channel, player, peers, invoked, NETWORK, observe, obsVars, raw_connection, connVars, accVars>>

\* ------------------------------------------------------- get, post, query

\* a byte string with an embedded NUL
HasNul(d) == \E i \in 1..Len(d) : d[i] = 0

\* buffer_ptr_and_len: the bytes the native function is given, {} for the
\* null pointer with length 0 (None and the empty buffer)
buffer_ptr_and_len(buffer) == IF buffer = {} \/ buffer = {<<>>} THEN {} ELSE buffer

\* a call with no native call
NoCall == [texts |-> <<>>, buffers |-> <<>>]

\* the body shared by get, post and query: texts are the arguments converted
\* with CString::new, in order, buffers the header and body buffers, err the
\* PDNetErr the native function returns
NetRequest(op, context, texts, buffers, err) ==
    /\ AppCanAct
    /\ err \in NetErrCodes
    /\ LET args == [texts |-> texts, buffers |-> buffers]
           passed == [texts |-> texts,
                      buffers |-> [i \in DOMAIN buffers |-> buffer_ptr_and_len(buffers[i])]]
       IN  Returns(
             IF \E i \in DOMAIN texts : ~CStringNew_ok(texts[i])
               THEN CallResult(Result(op, "argument_error", FALSE, FALSE, 0),
                               args, NoCall, NoErr)
             ELSE IF op \notin api
               THEN CallResult(Result(op, "config_error", TRUE, FALSE, 0),
                               args, NoCall, NoErr)
             ELSE IF ensure_net_ok(err)
               THEN CallResult(Result(op, "ok", FALSE, TRUE, err), args, passed, NoErr)
             ELSE CallResult(Result(op, "native_error", FALSE, TRUE, err), args, passed,
                             ErrInfo(context, Debug_PDNetErr(err))))
    /\ UNCHANGED <<api, host, plan, NETWORK_ENABLE_CALLBACK, wifi, handlesOf, freed, channel, player, peers, invoked, NETWORK, observe, obsVars, raw_connection, connVars, fault, accVars>>

\* HttpConnection::get(path, headers)
get(path, headers, err) == NetRequest("get", "http.get", <<path>>, <<headers>>, err)

\* HttpConnection::post(path, headers, body)
post(path, headers, body, err) ==
    NetRequest("post", "http.post", <<path>>, <<headers, body>>, err)

\* HttpConnection::query(method, path, headers, body)
query(method, path, headers, body, err) ==
    NetRequest("query", "http.query", <<method, path>>, <<headers, body>>, err)

\* ---------------------------------------------------------- narrow setters

\* a conversion that lets every value through
try_into_unchecked(v) == TRUE

\* u32 -> c_int with try_into: fails when the value exceeds i32::MAX = 2^31 - 1,
\* that is when bit 31 is set
try_into_ok(v) == v.hi = 0

\* the c_int of a value, as the native function reads the 32 bits
as_c_int(v) == IF v.hi = 0 THEN v.lo ELSE v.lo - 2147483647 - 1

\* the body shared by the narrow setters: pd_func_caller! resolves the entry,
\* then the arguments are converted in order, then the native function is called
NarrowSetter(op, entry, values) ==
    /\ AppCanAct
    /\ Returns(
         IF entry \notin api
           THEN CallResult(Result(op, "config_error", TRUE, FALSE, 0), values, <<>>, NoErr)
         ELSE IF \E i \in DOMAIN values : ~try_into_ok(values[i])
           THEN CallResult(Result(op, "argument_error", FALSE, FALSE, 0), values, <<>>,
                           NoErr)
         ELSE CallResult(Result(op, "ok", FALSE, TRUE, 0), values,
                         [i \in DOMAIN values |-> as_c_int(values[i])], NoErr))
    /\ UNCHANGED <<api, host, plan, NETWORK_ENABLE_CALLBACK, wifi, handlesOf, freed, channel, player, peers, invoked, NETWORK, observe, obsVars, raw_connection, connVars, fault, accVars>>

set_connect_timeout(timeout_ms) ==
    NarrowSetter("set_connect_timeout", "setConnectTimeout", <<timeout_ms>>)

set_byte_range(start, end) ==
    NarrowSetter("set_byte_range", "setByteRange", <<start, end>>)

set_read_timeout(timeout_ms) ==
    NarrowSetter("set_read_timeout", "setReadTimeout", <<timeout_ms>>)

set_read_buffer_size(bytes) ==
    NarrowSetter("set_read_buffer_size", "setReadBufferSize", <<bytes>>)

\* HttpConnection::set_keep_alive(keep_alive): the flag goes through as it is
set_keep_alive(keep_alive) ==
    /\ AppCanAct
    /\ Returns(
         IF "setKeepAlive" \notin api
           THEN CallResult(Result("set_keep_alive", "config_error", TRUE, FALSE, 0),
                           <<keep_alive>>, <<>>, NoErr)
         ELSE CallResult(Result("set_keep_alive", "ok", FALSE, TRUE, 0),
                         <<keep_alive>>, <<keep_alive>>, NoErr))
    /\ UNCHANGED <<api, host, plan, NETWORK_ENABLE_CALLBACK, wifi, handlesOf, freed, channel, player, peers, invoked, NETWORK, observe, obsVars, raw_connection, connVars, fault, accVars>>

\* HttpConnection::response_status: what the native getResponseStatus reports
response_status ==
    /\ AppCanAct
    /\ Returns(IF "getResponseStatus" \notin api
                 THEN Result("response_status", "config_error", TRUE, FALSE, 0)
               ELSE Result("response_status", "ok", FALSE, TRUE, host.status))
    /\ UNCHANGED <<api, host, plan, NETWORK_ENABLE_CALLBACK, wifi, handlesOf, freed, channel, player, peers, invoked, NETWORK, observe, obsVars, raw_connection, connVars, fault, accVars>>

\* ------------------------------------------------------------ access request

\* a wrapper that reclaims the state only when access was granted
reclaim_only_when_allowed(reply, hasState) == reply = kAccessAllow /\ hasState

\* a wrapper that reclaims the state whatever the reply
reclaim_whatever_reply(reply, hasState) == hasState

\* `reply != accessReply::kAccessAsk && !callback_state.is_null()`
reclaim_after_reply(reply, hasState) == reply # kAccessAsk /\ hasState

\* the decision as the closure sees it
BoolName(b) == IF b THEN "true" ELSE "false"

\* Http::request_access(server, port, use_ssl, purpose, callback); hasCb: the
\* callback is Some; reply: what the native requestAccess answers
request_access(server, purpose, hasCb, reply) ==
    /\ fault = "none"
    /\ nextReq <= MaxRequests
    /\ nextReq' = nextReq + 1
    /\ LET r == nextReq IN
       IF ~optional_cstring_ok(server) \/ ~optional_cstring_ok(purpose)
       THEN \* the `?` on optional_cstring returns before anything is boxed
            /\ Returns(CallResult(Result("request_access", "argument_error", FALSE, FALSE, 0),
                               <<server, purpose, hasCb>>, <<>>, NoErr))
            /\ UNCHANGED <<accCb, accReply, accBox, accDrops, accHost>>
       ELSE /\ accCb' = [accCb EXCEPT ![r] = hasCb]
            /\ IF "requestAccess" \notin api
               THEN \* the `?` on pd_func_caller! returns with callback_state in hand
                    /\ accBox' = [accBox EXCEPT ![r] = IF hasCb THEN "allocated" ELSE "none"]
                    /\ Returns(CallResult(Result("request_access", "config_error", TRUE, FALSE, 0),
                               <<server, purpose, hasCb>>, <<>>, NoErr))
                    /\ UNCHANGED <<accReply, accDrops, accHost>>
               ELSE /\ accReply' = [accReply EXCEPT ![r] = reply]
                    \* the host keeps the trampoline and the userdata of a request
                    \* it has not decided, and calls it once, later
                    /\ accHost' = [accHost EXCEPT ![r] =
                                     IF hasCb /\ reply = kAccessAsk THEN "pending" ELSE "none"]
                    /\ IF reclaim_after_reply(reply, hasCb)
                       THEN /\ accBox' = [accBox EXCEPT ![r] = "dropped"]
                            /\ accDrops' = [accDrops EXCEPT ![r] = @ + 1]
                       ELSE /\ accBox' = [accBox EXCEPT ![r] =
                                            IF hasCb THEN "allocated" ELSE "none"]
                            /\ UNCHANGED accDrops
                    /\ Returns(CallResult(Result("request_access", "ok", FALSE, TRUE, 0),
                               <<server, purpose, hasCb>>, <<>>, NoErr))
    /\ UNCHANGED <<api, host, plan, NETWORK_ENABLE_CALLBACK, wifi, handlesOf, freed, channel, player, peers, invoked, NETWORK, observe, obsVars, raw_connection, connVars, fault, accCalls, accArg>>

\* the host calls http_access_request_callback(allowed, userdata) for request r
http_access_request_callback(r, allowed) ==
    /\ fault = "none"
    /\ accHost[r] = "pending"
    /\ accHost' = [accHost EXCEPT ![r] = BoolName(allowed)]
    /\ accDrops' = [accDrops EXCEPT ![r] = @ + 1]
    /\ IF accBox[r] = "allocated"
       THEN /\ accCalls' = [accCalls EXCEPT ![r] = @ + 1]
            /\ accArg' = [accArg EXCEPT ![r] = BoolName(allowed)]
            /\ accBox' = [accBox EXCEPT ![r] = "dropped"]
            /\ UNCHANGED fault
       ELSE \* Box::from_raw on a state that was already reclaimed
            /\ fault' = "ub:access_state_freed"
            /\ UNCHANGED <<accCalls, accArg, accBox>>
    /\ UNCHANGED <<api, host, plan, NETWORK_ENABLE_CALLBACK, wifi, handlesOf, freed, channel, player, peers, invoked, NETWORK, observe, obsVars, raw_connection, connVars, last, accCb, accReply, nextReq>>

\* ----------------------------------------------------------- specification

Next ==
    \/ \E server \in Strings, hostNull \in BOOLEAN : new_connection(server, hostNull)
    \/ Clone
    \/ DropHandle
    \/ do_drop_getUserdata
    \/ do_drop_setUserdata
    \/ do_drop_close
    \/ do_drop_release
    \/ \E k \in SimpleKinds, some \in BOOLEAN : configure_simple_callback(k, some)
    \/ \E some \in BOOLEAN : on_header_received(some)
    \/ \E k \in SimpleKinds : run_simple_callback(k)
    \/ \E keyNull, valueNull \in BOOLEAN : run_header_callback(keyNull, valueNull)
    \/ Return
    \/ closure_use_after_free
    \/ close

\* the life of a connection: handles, callback slots, dispatch and teardown
Spec == Init /\ [][Next]_vars

NextRequest ==
    \/ \E server \in Strings, hostNull \in BOOLEAN : new_connection(server, hostNull)
    \/ DropHandle
    \/ do_drop_getUserdata
    \/ do_drop_setUserdata
    \/ do_drop_close
    \/ do_drop_release
    \/ \E k \in SimpleKinds, some \in BOOLEAN : configure_simple_callback(k, some)
    \/ \E some \in BOOLEAN : on_header_received(some)
    \/ close
    \/ \E len \in BufLens : \E r \in NativeRead(len) :
          r >= PDNetErr.NET_BUSY /\ read(len, r)

\* the operations of one handle and what they return, without host events
SpecRequest == InitRequest /\ [][NextRequest]_vars

\* paths handed to get, post and query
Paths == {<<>>, <<1>>, <<0>>, <<1, 0>>}

\* the codes post and query are answered with (get is answered with every code)
SomeNetErrCodes == {PDNetErr.NET_OK, PDNetErr.NET_BUSY, PDNetErr.NET_CONNECTION_CLOSED}

\* the calls of SpecHttp: the operation, its arguments, and for a request the
\* PDNetErr the native function answers with
Plans ==
    [op : {"get"}, path : Paths, headers : OptBuffers, err : NetErrCodes]
      \cup [op : {"post"}, path : Paths, headers : OptBuffers, body : OptBodies,
            err : SomeNetErrCodes]
      \cup [op : {"query"}, method : Methods, path : Paths, headers : OptBuffers,
            body : OptBodies, err : SomeNetErrCodes]
      \cup [op : {"set_connect_timeout", "set_read_timeout", "set_read_buffer_size"},
            value : U32Samples]
      \cup [op : {"set_byte_range"}, start : U32Samples, end : U32Samples]
      \cup [op : {"set_keep_alive"}, keep_alive : BOOLEAN]
      \cup [op : {"response_status"}]
      \cup {[op |-> "read", len |-> len, r |-> r] : len \in BufLens, r \in -19..MaxBuf}

\* Init of SpecHttp: an entry of the requests may be absent, the host returns
\* any address, results are recorded
InitHttp ==
    /\ StartState
    /\ host \in {h \in Hosts : h.status = DefaultHost.status}
    /\ plan \in Plans
    /\ api \in ApiConfigs(HttpEntries)
    /\ observe = TRUE

NextHttp ==
    \/ \E server \in Strings, hostNull \in BOOLEAN : new_connection(server, hostNull)
    \/ plan.op = "get" /\ get(plan.path, plan.headers, plan.err)
    \/ plan.op = "post" /\ post(plan.path, plan.headers, plan.body, plan.err)
    \/ plan.op = "query"
          /\ query(plan.method, plan.path, plan.headers, plan.body, plan.err)
    \/ plan.op = "set_connect_timeout" /\ set_connect_timeout(plan.value)
    \/ plan.op = "set_read_timeout" /\ set_read_timeout(plan.value)
    \/ plan.op = "set_read_buffer_size" /\ set_read_buffer_size(plan.value)
    \/ plan.op = "set_byte_range" /\ set_byte_range(plan.start, plan.end)
    \/ plan.op = "set_keep_alive" /\ set_keep_alive(plan.keep_alive)
    \/ plan.op = "response_status" /\ response_status
    \/ plan.op = "read" /\ read(plan.len, plan.r)

\* the requests and the narrow setters of one handle and what they return
SpecHttp == InitHttp /\ [][NextHttp]_vars

\* the event kinds of a request that is answered
AnswerKinds == {"response", "request_complete"}

\* Init of SpecEvents: getUserdata or getResponseStatus may be absent, the host
\* reports any status, the application issues one get, results are recorded
InitEvents ==
    /\ StartState
    /\ host \in {h \in Hosts : h.ptr = DefaultHost.ptr}
    /\ plan \in {p \in Plans : p.op = "get" /\ p.path = <<1>> /\ p.headers = {}
                                 /\ p.err \in SomeNetErrCodes}
    /\ api \in ApiConfigs({"getUserdata", "getResponseStatus"})
    /\ observe = TRUE

\* the host has accepted the request the application issued last
Answered == last.op = "get" /\ last.res = "ok"

NextEvents ==
    \/ \E hostNull \in BOOLEAN : new_connection(<<1>>, hostNull)
    \/ Clone
    \/ DropHandle
    \/ do_drop_getUserdata
    \/ do_drop_setUserdata
    \/ do_drop_close
    \/ do_drop_release
    \/ events = <<>> /\ configure_simple_callback("response", TRUE)
    \/ events = <<>> /\ get(plan.path, plan.headers, plan.err)
    \/ events = <<>> /\ on_header_received(TRUE)
    \/ \E k \in AnswerKinds : Answered /\ run_simple_callback(k)
    \/ Answered /\ run_header_callback(FALSE, FALSE)
    \/ \E k \in AnswerKinds : Answered /\ unregistered_event(k)
    \/ Return
    \/ response_status

\* a request and the host events that answer it: the application registers
\* on_response and on_header_received closures, and no other closure, before
\* the first event, and asks for the status afterwards
SpecEvents == InitEvents /\ [][NextEvents]_vars

\* ------------------------------------------------------- two connections

\* a trampoline that reads the response slot whatever its kind
accessor_response(k) == "response"

\* the slot the trampoline of kind k reads: `slots.<k>.as_mut()`
accessor(k) == k

\* connection_from_userdata on connection c: the userdata from_raw installed
\* on c is a token of the handle that wraps c
handle_of_userdata(c) == c

\* a setter of kind k called on the handle of connection c:
\* configure_simple_callback, or on_header_received for the header kind
setter_on(c, k, some) ==
    /\ fault = "none"
    /\ some => nextId <= MaxClosures
    /\ LET new == IF some THEN nextId ELSE 0
           t == peers[c]
       IN  peers' = [peers EXCEPT ![c] =
                        [slots |-> [t.slots EXCEPT ![k] = new],
                         reg   |-> IF SetterEntry(k) \in api
                                   THEN [t.reg EXCEPT ![k] = register(new)]
                                   ELSE t.reg]]
    /\ nextId' = IF some THEN nextId + 1 ELSE nextId
    /\ invoked' = <<>>
    /\ UNCHANGED <<api, host, plan, NETWORK_ENABLE_CALLBACK, wifi, handlesOf, freed, channel, player, NETWORK, observe, obsVars, raw_connection, conn,
                   userdata, reg, inner, strong, weak, handles, slots, alive, stack,
                   borrowed, td, tdlog, creating, supplied, staleFired, accVars,
                   fault, last>>

\* the host calls the trampoline of kind k with connection c
trampoline_on(c, k) ==
    /\ fault = "none"
    /\ peers[c].reg[k]
    /\ LET cb == peers[handle_of_userdata(c)].slots[accessor(k)]
       IN  invoked' = IF cb = 0 THEN <<>>
                      ELSE <<[conn |-> c, kind |-> k, id |-> cb]>>
    /\ UNCHANGED <<api, host, plan, NETWORK_ENABLE_CALLBACK, wifi, handlesOf, freed, channel, player, peers, NETWORK, observe, obsVars, raw_connection,
                   connVars, accVars, fault, last>>

\* Init of SpecTwo: two connections were created, no closure is registered;
\* one of the native setters may be absent
InitTwo ==
    /\ StartState
    /\ host = DefaultHost
    /\ plan = NoPlan
    /\ api \in ApiConfigs({SetterEntry(k) : k \in Kinds})
    /\ observe = FALSE

NextTwo ==
    \/ \E c \in Conns, k \in Kinds, some \in BOOLEAN : setter_on(c, k, some)
    \/ \E c \in Conns, k \in Kinds : trampoline_on(c, k)

\* the callback tables of two connections, their setters and their trampolines
SpecTwo == InitTwo /\ [][NextTwo]_vars


\* ------------------------------------------- the borrow of the slot table

\* the borrow of the slot table at the moment the native setter is called:
\* `drop(slots)` has released it
borrow_at_native == FALSE

\* the frame of a native setter call in progress, for kind k
NativeFrame(k) == [kind |-> k, id |-> 0]

\* application code is running: at top level or inside a closure, and not
\* waiting in a native call
AppRunning ==
    /\ AppCanAct
    /\ handles > 0
    /\ stack # <<>> => stack[Len(stack)].id # 0

\* a setter of kind k, step by step: the table is borrowed, the slot is
\* assigned (which drops the closure it held, while the borrow is held), the
\* borrow is released, and the native setter is called; the host may call
\* trampolines until native_return. dtor: the closure that is dropped owns a
\* value whose destructor calls a setter of this connection.
setter_call(k, some, dtor) ==
    /\ AppRunning
    /\ Len(stack) <= MaxDepth
    /\ some => nextId <= MaxClosures
    /\ IF ~borrowed /\ dtor /\ slots[k] # 0
       THEN \* the setter called by the destructor finds the table borrowed
            /\ fault' = "panic:borrow"
            /\ UNCHANGED <<slots, alive, nextId, supplied, reg, last, stack, borrowed>>
       ELSE /\ SetSlot(k, some)
            /\ IF ~borrowed /\ SetterEntry(k) \in api
               THEN /\ stack' = Append(stack, NativeFrame(k))
                    /\ borrowed' = borrow_at_native
               ELSE UNCHANGED <<stack, borrowed>>
    /\ UNCHANGED <<api, host, plan, NETWORK_ENABLE_CALLBACK, wifi, handlesOf, freed, channel, player, peers, invoked, NETWORK, observe, obsVars, raw_connection, conn, userdata, inner, strong, weak, handles,
                   td, tdlog, creating, accVars, staleFired>>

\* the native setter returns to the setter that called it
native_return ==
    /\ fault = "none"
    /\ stack # <<>>
    /\ stack[Len(stack)] \in {NativeFrame(k) : k \in Kinds}
    /\ stack' = SubSeq(stack, 1, Len(stack) - 1)
    /\ borrowed' = FALSE
    /\ UNCHANGED <<api, host, plan, NETWORK_ENABLE_CALLBACK, wifi, handlesOf, freed, channel, player, peers, invoked, NETWORK, observe, obsVars, raw_connection, conn, userdata, reg, inner, strong, weak,
                   handles, slots, nextId, alive, td, tdlog, creating, supplied, fault,
                   last, accVars, staleFired>>

\* a closure is on top of the stack
ClosureOnTop == stack # <<>> /\ stack[Len(stack)].id # 0

NextBorrow ==
    \/ new_connection(<<1>>, FALSE)
    \/ \E k \in Kinds, some, dtor \in BOOLEAN : setter_call(k, some, dtor)
    \/ native_return
    \/ \E k \in SimpleKinds : run_simple_callback(k)
    \/ \E keyNull, valueNull \in BOOLEAN : run_header_callback(keyNull, valueNull)
    \/ ClosureOnTop /\ Return

\* the setters with their native calls in progress, and the trampolines the
\* host calls meanwhile
SpecBorrow == Init /\ [][NextBorrow]_vars


\* the optional texts of the access requests: None, a clean string, a string
\* with an embedded NUL
AccessTexts == {{}, {<<1>>}, {<<1, 0>>}}

\* ------------------------------------------------------- the stored table

\* addresses of native tables, 0 is the null pointer
NetPtrs == {0, 1, 2}

\* Network::new(raw_network); http and tcp are the fields of the table that
\* raw_network points to
Network_new(raw_network, http, tcp) ==
    /\ fault = "none"
    /\ IF raw_network = 0 \/ http = 0 \/ tcp = 0
       THEN \* one of the three ensure! fails
            /\ Returns(CallResult(Result("Network::new", "error", FALSE, FALSE, 0),
                                  <<raw_network, http, tcp>>, <<>>, NoErr))
            /\ UNCHANGED NETWORK
       ELSE /\ NETWORK' = [raw_network |-> raw_network, raw_http |-> http, raw_tcp |-> tcp]
            /\ Returns(CallResult(Result("Network::new", "ok", FALSE, FALSE, 0),
                                  <<raw_network, http, tcp>>, <<>>, NoErr))
    /\ UNCHANGED <<api, host, plan, NETWORK_ENABLE_CALLBACK, wifi, handlesOf, freed, channel, player, peers, invoked, observe, obsVars, raw_connection,
                   connVars, accVars, fault>>

\* Network::get(): a copy of the stored table
Network_get ==
    /\ fault = "none"
    /\ Returns(Result("Network::get", "ok", FALSE, FALSE, NETWORK))
    /\ UNCHANGED <<api, host, plan, NETWORK_ENABLE_CALLBACK, wifi, handlesOf, freed, channel, player, peers, invoked, NETWORK, observe, obsVars,
                   raw_connection, connVars, accVars, fault>>

\* Init of SpecNetwork: NETWORK is Network::null(), results are recorded
InitNetwork ==
    /\ StartState
    /\ host = DefaultHost
    /\ plan = NoPlan
    /\ api = AllEntries
    /\ observe = TRUE

NextNetwork ==
    \/ \E raw_network, http, tcp \in NetPtrs : Network_new(raw_network, http, tcp)
    \/ Network_get

\* the process-wide table and the calls that set and read it
SpecNetwork == InitNetwork /\ [][NextNetwork]_vars


\* ------------------------------------------------- translation of codes

\* the largest magnitude of the i32 values translated, besides the extremes
MaxCode == 20

\* i32 values handed to describe_net_err
CodeSamples == (-MaxCode..MaxCode) \cup {-2147483647, 2147483647}

\* a translation that was not made yet
NoTranslation == [value |-> 0, tag |-> Named("")]

\* describe_net_err(value) is evaluated; the translation before it is kept
\* next to it
translate(value) ==
    /\ fault = "none"
    /\ LET before == IF last.op = "describe_net_err" THEN last.passed[1]
                     ELSE NoTranslation
       IN  Returns(CallResult(Result("describe_net_err", "ok", FALSE, FALSE, value),
                              <<value>>,
                              <<[value |-> value, tag |-> describe_net_err(value)], before>>,
                              NoErr))
    /\ UNCHANGED <<api, host, plan, NETWORK_ENABLE_CALLBACK, wifi, handlesOf, freed, channel, player, peers, invoked, NETWORK, observe, obsVars,
                   raw_connection, connVars, accVars, fault>>

\* Init of SpecDescribe: nothing was translated, results are recorded
InitDescribe ==
    /\ StartState
    /\ host = DefaultHost
    /\ plan = NoPlan
    /\ api = AllEntries
    /\ observe = TRUE

NextDescribe == \E value \in CodeSamples : translate(value)

\* describe_net_err as a function of i32 values
SpecDescribe == InitDescribe /\ [][NextDescribe]_vars


\* ------------------------------------------------------------------ sound

\* ------------------------------------------------------- Wi-Fi enable callback

\* the native entry set_enabled_internal calls
WifiEntries == {"setEnabled"}

\* a check of the pending slot that lets every call through
is_none_unchecked(slot) == TRUE

\* `NETWORK_ENABLE_CALLBACK.is_none()`
is_none(slot) == slot = None_pending

\* a trampoline that leaves the closure in the slot while it runs it
as_mut_pending(slot) == slot

\* `NETWORK_ENABLE_CALLBACK.take()`: what the slot holds afterwards
take(slot) == None_pending

\* an error arm that leaves the closure in the slot
Err_arm_keeps(c) == c

\* the Err arm of set_enabled_with_callback: `NETWORK_ENABLE_CALLBACK = None`
Err_arm(c) == None_pending

\* the box an assignment to the slot drops
Replaced(slot) == IF slot = None_pending THEN {} ELSE {slot}

\* a call of set_enabled_with_callback returns res for closure c
EnableReturns(flag, res, pending, droppedNow, native) ==
    /\ NETWORK_ENABLE_CALLBACK' = pending
    /\ wifi' = [wifi EXCEPT !.log = Append(@, [flag |-> flag, res |-> res]),
                            !.dropped = @ \cup droppedNow,
                            !.calls = IF native THEN @ + 1 ELSE @,
                            !.withCallback = IF native THEN @ + 1 ELSE @]

\* Network::set_enabled_with_callback(flag, callback), the callback being the
\* next closure the application makes
set_enabled_with_callback(flag) ==
    /\ Len(wifi.log) < MaxCallbacks
    /\ LET c == Len(wifi.log) + 1
       IN  IF ~flag
           THEN EnableReturns(flag, "err_flag", NETWORK_ENABLE_CALLBACK, {c}, FALSE)
           ELSE IF ~is_none(NETWORK_ENABLE_CALLBACK)
           THEN EnableReturns(flag, "err_pending", NETWORK_ENABLE_CALLBACK, {c}, FALSE)
           ELSE IF "setEnabled" \notin api
           THEN EnableReturns(flag, "err_config", Err_arm(c),
                              Replaced(NETWORK_ENABLE_CALLBACK)
                                \cup (IF Err_arm(c) = c THEN {} ELSE {c}), FALSE)
           ELSE /\ wifi.calls < MaxCalls
                /\ EnableReturns(flag, "ok", c, Replaced(NETWORK_ENABLE_CALLBACK), TRUE)
    /\ UNCHANGED <<api, host, plan, handlesOf, freed, channel, player, peers, invoked,
                   NETWORK, observe, obsVars, raw_connection, connVars, accVars, fault,
                   last>>

\* Network::set_enabled(flag): set_enabled_internal(flag, None)
set_enabled(flag) ==
    /\ IF "setEnabled" \in api
       THEN /\ wifi.calls < MaxCalls
            /\ wifi' = [wifi EXCEPT !.calls = @ + 1, !.res = "ok"]
       ELSE wifi' = [wifi EXCEPT !.res = "err_config"]
    /\ UNCHANGED <<api, host, plan, handlesOf, freed, channel, player, peers, invoked,
                   NETWORK, observe, obsVars, raw_connection, connVars, accVars, fault,
                   last, NETWORK_ENABLE_CALLBACK>>

\* the host, which was given the trampoline, calls wifi_enable_callback(err):
\* the closure is taken out of the slot and invoked
wifi_enable_callback ==
    /\ wifi.withCallback > 0
    /\ wifi.fired < MaxFirings
    /\ Len(wifi.stack) < MaxDepth
    /\ IF NETWORK_ENABLE_CALLBACK # None_pending
       THEN /\ NETWORK_ENABLE_CALLBACK' = take(NETWORK_ENABLE_CALLBACK)
            /\ wifi' = [wifi EXCEPT !.fired = @ + 1,
                                    !.stack = Append(@, NETWORK_ENABLE_CALLBACK),
                                    !.runs[NETWORK_ENABLE_CALLBACK] = @ + 1]
       ELSE /\ wifi' = [wifi EXCEPT !.fired = @ + 1]
            /\ UNCHANGED NETWORK_ENABLE_CALLBACK
    /\ UNCHANGED <<api, host, plan, handlesOf, freed, channel, player, peers, invoked,
                   NETWORK, observe, obsVars, raw_connection, connVars, accVars, fault,
                   last>>

\* the closure wifi_enable_callback invoked returns, and the box the
\* trampoline took out of the slot is dropped at the end of the `if let`
wifi_enable_return ==
    /\ wifi.stack # <<>>
    /\ wifi' = [wifi EXCEPT !.stack = SubSeq(@, 1, Len(@) - 1),
                            !.dropped = @ \cup {wifi.stack[Len(wifi.stack)]}]
    /\ UNCHANGED <<api, host, plan, handlesOf, freed, channel, player, peers, invoked,
                   NETWORK, observe, obsVars, raw_connection, connVars, accVars, fault,
                   last, NETWORK_ENABLE_CALLBACK>>

\* Init of SpecWifi: the table has setEnabled or lacks it
InitWifi ==
    /\ StartState
    /\ host = DefaultHost
    /\ plan = NoPlan
    /\ api \in SUBSET WifiEntries
    /\ observe = FALSE

NextWifi ==
    \/ \E flag \in BOOLEAN : set_enabled_with_callback(flag)
    \/ \E flag \in BOOLEAN : set_enabled(flag)
    \/ wifi_enable_callback
    \/ wifi_enable_return

\* enabling Wi-Fi with and without a callback, from the application and from
\* inside a running callback, and the host calling the trampoline
SpecWifi == InitWifi /\ [][NextWifi]_vars


\* vectors of the channel hold at most this many boxes
MaxHeld == 2

\* entries of the native sound tables the channel and its objects go through
ChannelEntries == {"addEffect", "removeEffect", "addSource", "removeSource",
                   "freeChannel", "freeOverdrive", "freeSynth"}

\* the native function that frees a sound object: freeOverdrive (and its like)
\* for effects, freeSynth for sources, freeSample for samples
FreeEntry(o) ==
    IF o \in Effects THEN "freeOverdrive"
    ELSE IF o \in Sources THEN "freeSynth"
    ELSE "freeSample"

\* number of boxes of the vector v that hold a clone of o
Held(v, o) == Cardinality({i \in 1..Len(v) : v[i] = o})

\* Vec::retain(|x| x != o)
RECURSIVE retain(_, _)
retain(v, o) ==
    IF v = <<>> THEN <<>>
    ELSE IF v[1] = o THEN retain(Tail(v), o)
    ELSE <<v[1]>> \o retain(Tail(v), o)

\* the elements of a vector
Elems(v) == {v[i] : i \in 1..Len(v)}

\* impl Drop for OverdriveInner / SynthInner / AudioSampleInner: the objects
\* of `zero`, whose last Rc clone was dropped, are freed natively when the
\* table has the function (pd_func_caller_log leaks otherwise)
FreeAll(zero) == freed' = freed \cup {o \in zero : FreeEntry(o) \in api}

\* the application clones its handle of o
CloneSound(o) ==
    /\ handlesOf[o] > 0
    /\ handlesOf[o] < MaxClones
    /\ handlesOf' = [handlesOf EXCEPT ![o] = @ + 1]
    /\ UNCHANGED <<api, host, plan, NETWORK_ENABLE_CALLBACK, wifi, freed, channel, player, peers, invoked, NETWORK,
                   observe, obsVars, raw_connection, connVars, accVars, fault, last>>

\* clones of o held by the channel and by the player
HeldClones(o) ==
    (IF channel.dropped THEN 0
     ELSE Held(channel.effects, o) + Held(channel.sources, o))
    + (IF ~player.dropped /\ player.sample = o THEN 1 ELSE 0)

\* the application drops one of its handles of o
DropSound(o) ==
    /\ handlesOf[o] > 0
    /\ handlesOf' = [handlesOf EXCEPT ![o] = @ - 1]
    /\ FreeAll(IF handlesOf[o] = 1 /\ HeldClones(o) = 0 THEN {o} ELSE {})
    /\ UNCHANGED <<api, host, plan, NETWORK_ENABLE_CALLBACK, wifi, channel, player, peers, invoked, NETWORK,
                   observe, obsVars, raw_connection, connVars, accVars, fault, last>>

\* SoundChannel::add_effect(effect) / add_source(source): the native add,
\* when the table has it, and the object is boxed into the vector either way
add_to_channel(o) ==
    /\ ~channel.dropped
    /\ handlesOf[o] > 0
    /\ o \in Effects \cup Sources
    /\ Len(IF o \in Effects THEN channel.effects ELSE channel.sources) < MaxHeld
    /\ handlesOf' = [handlesOf EXCEPT ![o] = @ - 1]
    /\ LET entry == IF o \in Effects THEN "addEffect" ELSE "addSource" IN
       channel' = [channel EXCEPT
                     !.attached = IF entry \in api THEN @ \cup {o} ELSE @,
                     !.effects = IF o \in Effects THEN Append(@, o) ELSE @,
                     !.sources = IF o \in Sources THEN Append(@, o) ELSE @]
    /\ UNCHANGED <<api, host, plan, NETWORK_ENABLE_CALLBACK, wifi, freed, player, peers, invoked, NETWORK,
                   observe, obsVars, raw_connection, connVars, accVars, fault, last>>

\* SoundChannel::remove_effect(effect) / remove_source(source): the native
\* remove, when the table has it; the clones in the vector are dropped by
\* retain either way, and the argument is dropped on return
remove_from_channel(o) ==
    /\ ~channel.dropped
    /\ handlesOf[o] > 0
    /\ o \in Effects \cup Sources
    /\ LET entry == IF o \in Effects THEN "removeEffect" ELSE "removeSource" IN
       channel' = [channel EXCEPT
                     !.attached = IF entry \in api THEN @ \ {o} ELSE @,
                     !.effects = retain(@, o),
                     !.sources = retain(@, o)]
    /\ handlesOf' = [handlesOf EXCEPT ![o] = @ - 1]
    /\ FreeAll(IF handlesOf[o] = 1 /\ (~player.dropped => player.sample # o)
               THEN {o} ELSE {})
    /\ UNCHANGED <<api, host, plan, NETWORK_ENABLE_CALLBACK, wifi, player, peers, invoked, NETWORK,
                   observe, obsVars, raw_connection, connVars, accVars, fault, last>>

\* the native calls of SoundChannel::drop for the boxes of v, through `entry`
RECURSIVE RemoveCalls(_, _)
RemoveCalls(v, entry) ==
    IF v = <<>> \/ entry \notin api THEN <<>>
    ELSE <<[call |-> entry, arg |-> v[1]]>> \o RemoveCalls(Tail(v), entry)

\* impl Drop for SoundChannel: removeSource for every source, removeEffect for
\* every effect, freeChannel; then the vectors are dropped with their boxes
drop_channel ==
    /\ ~channel.dropped
    /\ LET detached == (IF "removeSource" \in api THEN Elems(channel.sources) ELSE {})
                       \cup (IF "removeEffect" \in api THEN Elems(channel.effects) ELSE {})
       IN
       /\ channel' = [live |-> "freeChannel" \notin api,
                      effects |-> channel.effects,
                      sources |-> channel.sources,
                      attached |-> channel.attached \ detached,
                      dropped |-> TRUE,
                      droplog |-> RemoveCalls(channel.sources, "removeSource")
                                  \o RemoveCalls(channel.effects, "removeEffect")
                                  \o (IF "freeChannel" \in api
                                      THEN <<[call |-> "freeChannel", arg |-> "channel"]>>
                                      ELSE <<>>)]
       /\ FreeAll({o \in Elems(channel.sources) \cup Elems(channel.effects) :
                      handlesOf[o] = 0})
    /\ UNCHANGED <<api, host, plan, NETWORK_ENABLE_CALLBACK, wifi, handlesOf, player, peers, invoked, NETWORK,
                   observe, obsVars, raw_connection, connVars, accVars, fault, last>>

\* the table is fixed by the host: every sound entry present, or one absent
SoundConfigs(entries) == {entries} \cup {entries \ {e} : e \in entries}

\* Init of SpecChannel: a channel, and one handle of every effect and source
InitChannel ==
    /\ StartState
    /\ host = DefaultHost
    /\ plan = NoPlan
    /\ api \in SoundConfigs(ChannelEntries)
    /\ observe = FALSE

NextChannel ==
    \/ \E o \in Effects \cup Sources : CloneSound(o)
    \/ \E o \in Effects \cup Sources : DropSound(o)
    \/ \E o \in Effects \cup Sources : add_to_channel(o)
    \/ \E o \in Effects \cup Sources : remove_from_channel(o)
    \/ drop_channel

\* a sound channel, the effects and sources added to it, and their handles
SpecChannel == InitChannel /\ [][NextChannel]_vars


\* entries of the native sound tables the sample player and the samples go through
PlayerEntries == {"setSample", "freePlayer", "freeSample"}

\* SamplePlayer::set_sample(&audio_sample), first statement:
\* `self.sample = Some(audio_sample.clone())`, which drops the clone the field held
set_sample_store(a) ==
    /\ ~player.dropped
    /\ player.setting = "none"
    /\ a \in Samples
    /\ handlesOf[a] > 0
    /\ player' = [player EXCEPT !.sample = a, !.setting = a]
    /\ FreeAll(IF player.sample \in Samples \ {a} /\ handlesOf[player.sample] = 0
               THEN {player.sample} ELSE {})
    /\ UNCHANGED <<api, host, plan, NETWORK_ENABLE_CALLBACK, wifi, handlesOf, channel, peers, invoked, NETWORK,
                   observe, obsVars, raw_connection, connVars, accVars, fault, last>>

\* SamplePlayer::set_sample, second statement: the native setSample, when the
\* table has it
set_sample_native ==
    /\ player.setting # "none"
    /\ player' = [player EXCEPT
                    !.assigned = IF "setSample" \in api THEN player.setting ELSE @,
                    !.setting = "none"]
    /\ UNCHANGED <<api, host, plan, NETWORK_ENABLE_CALLBACK, wifi, handlesOf, freed, channel, peers, invoked, NETWORK,
                   observe, obsVars, raw_connection, connVars, accVars, fault, last>>

\* impl Drop for SamplePlayer: freePlayer, when the table has it; then the
\* sample field is dropped
drop_player ==
    /\ ~player.dropped
    /\ player.setting = "none"
    /\ player' = [player EXCEPT !.dropped = TRUE,
                                !.live = "freePlayer" \notin api]
    /\ FreeAll(IF player.sample \in Samples /\ handlesOf[player.sample] = 0
               THEN {player.sample} ELSE {})
    /\ UNCHANGED <<api, host, plan, NETWORK_ENABLE_CALLBACK, wifi, handlesOf, channel, peers, invoked, NETWORK,
                   observe, obsVars, raw_connection, connVars, accVars, fault, last>>

\* Init of SpecSample: a player, and one handle of every sample
InitSample ==
    /\ StartState
    /\ host = DefaultHost
    /\ plan = NoPlan
    /\ api \in SoundConfigs(PlayerEntries)
    /\ observe = FALSE

NextSample ==
    \/ \E a \in Samples : player.setting = "none" /\ CloneSound(a)
    \/ \E a \in Samples : player.setting = "none" /\ DropSound(a)
    \/ \E a \in Samples : set_sample_store(a)
    \/ set_sample_native
    \/ drop_player

\* a sample player, the samples set on it, and their handles
SpecSample == InitSample /\ [][NextSample]_vars


NextAccess ==
    \/ \E server, purpose \in AccessTexts, hasCb \in BOOLEAN, reply \in AccessReplies :
          request_access(server, purpose, hasCb, reply)
    \/ \E r \in 1..MaxRequests, allowed \in BOOLEAN : http_access_request_callback(r, allowed)

\* the access-request flow of Http
SpecAccess == InitAccess /\ [][NextAccess]_vars

\* ------------------------------------------------------------------ claims

\* number of times the teardown performed `step`
TdCount(step) == Cardinality({i \in 1..Len(tdlog) : tdlog[i] = step})

\* the teardown of a connection that was created successfully has ended,
\* by returning or by panicking
TeardownOver == ~creating /\ (td = "done" \/ fault = "panic:teardown")

\* a host event reaches one of the five trampolines
HostFires ==
    \/ \E k \in SimpleKinds : run_simple_callback(k)
    \/ \E keyNull, valueNull \in BOOLEAN : run_header_callback(keyNull, valueNull)

\* C1 (as stated): after every setter call, a trampoline is registered for
\* kind k if and only if the last value supplied for k was Some.
C1_RegisteredIffSupplied ==
    inner = "live" => \A k \in Kinds : reg[k] <=> supplied[k]

\* C1 (amended): after a setter call that returned Ok (the native setter of k
\* is present) a trampoline is registered for k iff the last value supplied
\* for k was Some; after any setter call, a failing one included, no
\* trampoline is registered while its slot is empty.
C1_RegisteredIffSuppliedWhenSetterPresent ==
    inner = "live" =>
        \A k \in Kinds :
            /\ SetterEntry(k) \in api => (reg[k] <=> supplied[k])
            /\ reg[k] => slots[k] # 0

\* C1 witness: setters ran with Some and with None, one of them dropped a
\* closure it replaced or cleared, one kind is registered and another is not
C1_Witness ==
    /\ inner = "live"
    /\ fault = "none"
    /\ \A k \in Kinds : SetterEntry(k) \in api
    /\ Cardinality(alive) < nextId - 1
    /\ \E k \in Kinds : reg[k] /\ supplied[k]
    /\ \E k \in Kinds : ~reg[k] /\ ~supplied[k]

\* C2 (as stated): once the teardown of a successfully created connection has
\* ended, it has released once, closed once and reclaimed the weak token once.
C2_TeardownExactlyOnce ==
    TeardownOver =>
        /\ TdCount("release") = 1
        /\ TdCount("close") = 1
        /\ TdCount("reclaim") = 1

\* C2 (amended): no teardown step is ever performed twice, and when the native
\* getUserdata, close and release entries are present the teardown of a
\* successfully created connection does not panic and, once it has ended, has
\* reclaimed the weak token once, closed once and released once.
C2_TeardownExactlyOnceWhenEntriesPresent ==
    /\ \A step \in {"getUserdata", "reclaim", "setUserdata", "close", "release"} :
           TdCount(step) <= 1
    /\ (~creating /\ {"getUserdata", "close", "release"} \subseteq api) =>
           /\ fault # "panic:teardown"
           /\ td = "done" =>
                 /\ TdCount("release") = 1
                 /\ TdCount("close") = 1
                 /\ TdCount("reclaim") = 1
                 /\ weak = 0

\* C2 witness: the teardown of a connection that had closures boxed into its
\* slots has returned
C2_Witness ==
    /\ td = "done"
    /\ ~creating
    /\ nextId > 2
    /\ tdlog = <<"getUserdata", "reclaim", "setUserdata", "close", "release">>

\* C3: a trampoline the host invokes while the userdata is null or the strong
\* count is 0 invokes no closure and changes no slot, registration or count.
C3_StaleDispatchIsNoOp ==
    [][(HostFires /\ (userdata = "null" \/ strong = 0)) => UNCHANGED progVars]_vars

\* C3 witness: a trampoline ran during the teardown, for a kind whose closure
\* is still in its slot and whose trampoline is still registered
C3_Witness ==
    /\ staleFired
    /\ inner = "dropping"
    /\ \E k \in Kinds : reg[k] /\ slots[k] # 0

\* C4: a closure that is executing stays allocated until it returns, also
\* when it sets or clears its own slot.
C4_RunningClosureStaysAllocated ==
    \A c \in Running : c \in alive

C6_DecidedReplyReclaimsState ==
    \A r \in 1..MaxRequests :
        (accCb[r] /\ accReply[r] \in {kAccessDeny, kAccessAllow}) =>
            /\ accBox[r] = "dropped"
            /\ accDrops[r] = 1
            /\ accCalls[r] = 0
            /\ accHost[r] = "none"

\* C6 witness: requests with a callback were answered kAccessDeny and
\* kAccessAllow and their states are dropped
C6_Witness ==
    /\ \E r \in 1..MaxRequests :
           accCb[r] /\ accReply[r] = kAccessDeny /\ accBox[r] = "dropped"
    /\ \E r \in 1..MaxRequests :
           accCb[r] /\ accReply[r] = kAccessAllow /\ accBox[r] = "dropped"

\* C7: after a reply of kAccessAsk to a request with a callback, the state is
\* allocated and untouched until the host calls the trampoline; that one call
\* invokes the closure once with the host's decision and drops the state once.
C7_PendingStateIsTheHosts ==
    /\ fault # "ub:access_state_freed"
    /\ \A r \in 1..MaxRequests :
           (accCb[r] /\ accReply[r] = kAccessAsk) =>
               \/ /\ accHost[r] = "pending"
                  /\ accBox[r] = "allocated"
                  /\ accDrops[r] = 0
                  /\ accCalls[r] = 0
               \/ /\ accHost[r] \in {"true", "false"}
                  /\ accBox[r] = "dropped"
                  /\ accDrops[r] = 1
                  /\ accCalls[r] = 1
                  /\ accArg[r] = accHost[r]

\* C7 witness: the host has decided one pending request, whose closure ran,
\* while another request is still pending
C7_Witness ==
    /\ \E r \in 1..MaxRequests :
           /\ accReply[r] = kAccessAsk
           /\ accHost[r] = "false"
           /\ accCalls[r] = 1
           /\ accBox[r] = "dropped"
    /\ \E r \in 1..MaxRequests : accHost[r] = "pending" /\ accBox[r] = "allocated"

\* C8: on every return path of request_access, a state that is still
\* allocated is one the host holds and will hand back; no state is reclaimed
\* twice.
C8_EveryStateReclaimed ==
    \A r \in 1..MaxRequests :
        /\ accBox[r] = "allocated" => accHost[r] = "pending"
        /\ accDrops[r] <= 1

\* C9: with every native entry present, no operation of the request path
\* panics, whatever its arguments.
C9_NoPanicOnRequestPath ==
    api = AllEntries => fault = "none"

\* C10: an operation whose native entry is absent returns a configuration
\* error without calling the native function, and new_connection does not
\* panic when setUserdata is absent.
C10_AbsentEntryIsConfigError ==
    /\ last.absent => (last.res = "config_error" /\ ~last.native)
    /\ creating => fault = "none"

\* the operations that issue a request
RequestOps == {"get", "post", "query"}

\* C11: get, post and query return an argument error, without a native call,
\* whenever the path or the method has an embedded NUL and also whenever the
\* header buffer has one.
C11_NulInPathOrHeadersRejected ==
    (/\ last.op \in RequestOps
     /\ \/ \E i \in DOMAIN last.args.texts : HasNul(last.args.texts[i])
        \/ \E h \in last.args.buffers[1] : HasNul(h))
        => last.res = "argument_error" /\ ~last.native

\* the tag of the closed table that corresponds to a code: the name of the
\* variant that has the code, Unknown(code) for a code outside the table
TagOfCode(code) ==
    IF code \in NetErrCodes
    THEN Named(CHOOSE n \in DOMAIN PDNetErr : PDNetErr[n] = code)
    ELSE Unknown(code)

\* C12: for a non-empty buffer, read returns Ok(n) with n the result of the
\* native read whenever that result is >= 0, and an error carrying the tag of
\* the code whenever it is negative; it never returns Ok for a negative result.
\* (last.val is the result of the native read.)
C12_ReadResult ==
    (last.op = "read" /\ last.native)
        => /\ last.args[1] > 0
           /\ last.val >= 0 => last.res = "ok"
           /\ last.val < 0 => /\ last.res = "native_error"
                              /\ last.err.tag = TagOfCode(last.val)

\* a read answered with NET_CONNECTION_CLOSED returned the error with that tag
C12_Witness ==
    /\ last.op = "read"
    /\ last.val = PDNetErr.NET_CONNECTION_CLOSED
    /\ last.res = "native_error"
    /\ last.err = ErrInfo("http.read", Named("NET_CONNECTION_CLOSED"))

\* new_connection returned no handle and left no connection behind
NoHandle(res) ==
    /\ last'.op = "new_connection"
    /\ last'.res = res
    /\ handles' = 0
    /\ inner' = "none"
    /\ userdata' = "null"

\* new_connection returned a handle that wraps the pointer of the host, with
\* a weak token of the handle installed as the userdata of the connection
HandleReturned ==
    /\ last'.op = "new_connection"
    /\ last'.res = "ok"
    /\ handles' = 1
    /\ inner' = "live"
    /\ strong' = 1
    /\ raw_connection' = host.ptr
    /\ conn' = "open"
    /\ userdata' = "weak"
    /\ weak' = 1

\* a call of new_connection with a server name that passes the argument checks
ValidServer(server) == server # <<>> /\ CStringNew_ok(server)

\* C13 (as stated): new_connection returns a configuration error when the
\* newConnection entry is absent, a protocol-violation error when newConnection
\* returns null, and otherwise a handle wrapping the pointer the host returned
\* with a weak token installed as the userdata.
C13_NewConnectionOutcome ==
    [][\A server \in Strings, hostNull \in BOOLEAN :
         (ValidServer(server) /\ new_connection(server, hostNull))
            => IF "newConnection" \notin api THEN NoHandle("config_error")
               ELSE IF hostNull THEN NoHandle("protocol_violation")
               ELSE HandleReturned]_vars

\* C13 (amended): as above, and the handle is returned when the setUserdata
\* entry is present; when it is absent no handle is returned and no token is
\* installed (the half-built connection is torn down).
C13_NewConnectionOutcomeBySetUserdata ==
    [][\A server \in Strings, hostNull \in BOOLEAN :
         (ValidServer(server) /\ new_connection(server, hostNull))
            => IF "newConnection" \notin api THEN NoHandle("config_error")
               ELSE IF hostNull THEN NoHandle("protocol_violation")
               ELSE IF "setUserdata" \in api THEN HandleReturned
               ELSE /\ handles' = 0
                    /\ userdata' = "null"
                    /\ inner' = "dropping"
                    /\ last' = last]_vars

\* the host returned the second address and the handle wraps it
C13_Witness ==
    /\ last.op = "new_connection"
    /\ last.res = "ok"
    /\ host.ptr # DefaultHost.ptr
    /\ raw_connection = host.ptr
    /\ userdata = "weak"
    /\ handles = 1

\* C14: between the successful creation of a connection and the start of its
\* teardown the userdata is a weak token of the handle: the strong count is
\* the number of handles of the application plus one for each dispatch in
\* progress (so installing and resolving the token leave it unchanged once the
\* dispatch has returned), and the weak count of the token is never consumed.
C14_UserdataIsWeakToken ==
    inner = "live"
        => /\ userdata = "weak"
           /\ weak = 1
           /\ strong = handles + Len(stack)
           /\ raw_connection = host.ptr

\* a nested dispatch resolved the token twice while the application holds
\* every clone
C14_Witness ==
    /\ inner = "live"
    /\ fault = "none"
    /\ Len(stack) = MaxDepth
    /\ handles = MaxClones
    /\ strong = MaxClones + MaxDepth
    /\ weak = 1

\* C15: the teardown runs when and only when the strong count (the handles of
\* the application plus the references of the dispatches in progress) reaches
\* zero: the weak token of the host does not delay it, and dropping one of
\* several clones does not start it.
C15_TeardownIffLastStrongDropped ==
    /\ [](inner # "none"
            => /\ strong = 0 <=> td # "idle"
               /\ strong = 0 <=> inner \in {"dropping", "freed"}
               /\ inner = "live" => strong = handles + Len(stack))
    /\ [][/\ (DropHandle /\ handles > 1) => (td' = "idle" /\ inner' = "live")
          /\ (strong > 0 /\ strong' = 0) => (td' = "getUserdata" /\ weak' = 1)]_vars

\* the last handle was dropped when no dispatch was in progress: the teardown
\* has started although the host still holds the weak token
C15_Witness ==
    /\ ~creating
    /\ inner = "dropping"
    /\ td = "getUserdata"
    /\ strong = 0
    /\ handles = 0
    /\ weak = 1
    /\ userdata = "weak"

\* a host event of kind k reaches the trampoline of k
HostFiresKind(k) ==
    IF k = "header_received"
    THEN \E keyNull, valueNull \in BOOLEAN : run_header_callback(keyNull, valueNull)
    ELSE run_simple_callback(k)

\* C16: once a setter was called with None for kind k, and until a setter is
\* called for k with Some again, no host event of kind k invokes a closure;
\* the cancelling always unregisters the trampoline of k as well.
C16_CancelledKindInvokesNothing ==
    /\ [](\A k \in Kinds : ~supplied[k] => (~reg[k] /\ slots[k] = 0))
    /\ [][\A k \in Kinds :
            (~supplied[k] /\ HostFiresKind(k))
                => (stack' = stack /\ strong' = strong)]_vars

\* the closure the application had registered was cancelled by a setter call
\* with None that returned Ok: its box is gone and nothing is registered
C16_Witness ==
    /\ inner = "live"
    /\ fault = "none"
    /\ \A k \in Kinds : SetterEntry(k) \in api
    /\ nextId = 2
    /\ alive = {}
    /\ \A k \in Kinds : ~supplied[k] /\ ~reg[k] /\ slots[k] = 0

\* the name under which a request reports its failure
ContextOf(op) ==
    CASE op = "get" -> "http.get"
      [] op = "post" -> "http.post"
      [] op = "query" -> "http.query"

\* C17: get, post and query return Ok if and only if the native call returns
\* NET_OK; for every other code they return a recoverable error carrying the
\* name of the operation and the tag of the code; they never panic.
\* (last.val is the code the native call returned.)
C17_RequestResult ==
    /\ (last.op \in RequestOps /\ last.native)
          => /\ last.res = "ok" <=> last.val = PDNetErr.NET_OK
             /\ last.res # "ok"
                   => /\ last.res = "native_error"
                      /\ last.val < 0
                      /\ last.err = ErrInfo(ContextOf(last.op), TagOfCode(last.val))
    /\ last.op \in RequestOps => fault = "none"

\* a post answered with NET_BUSY returned the error of http.post with that tag
C17_Witness ==
    /\ last.op = "post"
    /\ last.native
    /\ last.val = PDNetErr.NET_BUSY
    /\ last.res = "native_error"
    /\ last.err = ErrInfo("http.post", Named("NET_BUSY"))
    /\ fault = "none"

\* the narrow setters with u32 arguments
NarrowOps == {"set_connect_timeout", "set_read_timeout", "set_read_buffer_size",
              "set_byte_range"}

\* the u32 value exceeds 2^31 - 1
Oversized(v) == v.hi = 1

\* the native setter was called with exactly the values the setter was given
PassedUnchanged ==
    /\ last.native
    /\ last.res = "ok"
    /\ DOMAIN last.passed = DOMAIN last.args
    /\ \A i \in DOMAIN last.args : last.args[i].hi = 0 /\ last.passed[i] = last.args[i].lo

\* C18 (as stated): every u32 argument of a narrow setter that exceeds 2^31 - 1
\* makes the setter return an argument error without calling the native
\* setter, and values that fit are passed to the native setter unchanged.
C18_OversizedIsArgumentError ==
    last.op \in NarrowOps
        => IF \E i \in DOMAIN last.args : Oversized(last.args[i])
           THEN last.res = "argument_error" /\ ~last.native
           ELSE last.native => PassedUnchanged

\* C18 (amended): the same when the native setter entry is present; when it
\* is absent the setter returns a configuration error whatever the arguments,
\* and calls nothing.
C18_OversizedIsArgumentErrorWhenPresent ==
    last.op \in NarrowOps
        => IF last.absent
           THEN last.res = "config_error" /\ ~last.native
           ELSE IF \E i \in DOMAIN last.args : Oversized(last.args[i])
           THEN last.res = "argument_error" /\ ~last.native
           ELSE PassedUnchanged

\* set_byte_range was called with a start that fits and an end of 2^31: it
\* returned the argument error and called nothing
C18_Witness ==
    /\ last.op = "set_byte_range"
    /\ ~last.absent
    /\ last.args = <<[hi |-> 0, lo |-> 1], [hi |-> 1, lo |-> 0]>>
    /\ last.res = "argument_error"
    /\ ~last.native

\* the teardown in full
FullTeardown == <<"getUserdata", "reclaim", "setUserdata", "close", "release">>

\* C19: close() may be called any number of times on a live handle: each call
\* issues the native close and nothing else, and leaves the slots, the
\* registrations, the userdata and the reference counts as they are, so the
\* drop that follows performs the complete teardown.
C19_CloseLeavesConnectionAlone ==
    /\ [][(closes' # closes \/ (last' # last /\ last'.op = "close"))
            => /\ inner = "live"
               /\ closes' \in {closes, closes + 1}
               /\ closes' = closes + 1 <=> last'.native
               /\ last'.res = "ok"
               /\ UNCHANGED <<connVars, raw_connection, fault>>]_vars
    /\ [](closes > 0 /\ td = "done" => tdlog = FullTeardown /\ conn = "released")
    /\ [](closes > 0 /\ {"getUserdata", "release"} \subseteq api
             => fault # "panic:teardown")

\* close() was called as often as the bound allows on a connection with a
\* closure registered, and the drop that followed performed the whole teardown
C19_Witness ==
    /\ closes = MaxCloses
    /\ nextId > 1
    /\ td = "done"
    /\ tdlog = FullTeardown
    /\ conn = "released"
    /\ inner = "freed"

\* the host events of the scenario of C20: response once, then request_complete once
ScenarioEvents == <<"response", "request_complete">>

\* the application registered an on_response closure and no other, against a
\* host that provides every entry
ScenarioSetup ==
    /\ api = AllEntries
    /\ supplied = [k \in Kinds |-> k = "response"]

\* C20: after creating a connection, registering only an on_response closure
\* and issuing get, when the host fires response once and then request_complete
\* once, the closure has run exactly once, and exactly once after the first of
\* the two events (request_complete invokes nothing); response_status returns
\* exactly the status the host reports.
C20_EndToEnd ==
    /\ (ScenarioSetup /\ inner = "live")
          => /\ events = <<"response">> => ran = 1
             /\ events = ScenarioEvents => ran = 1
    /\ (last.op = "response_status" /\ last.native)
          => (last.res = "ok" /\ last.val = host.status)

\* the whole scenario has happened, against a host reporting 404
C20_Witness ==
    /\ ScenarioSetup
    /\ inner = "live"
    /\ events = ScenarioEvents
    /\ stack = <<>>
    /\ ran = 1
    /\ host.status = 404
    /\ last.op = "response_status"
    /\ last.val = 404
    /\ fault = "none"


\* the steps of the teardown so far, whatever became of the weak token
TeardownSteps ==
    [i \in 1..Len(tdlog) |-> IF tdlog[i] = "reclaim_null" THEN "reclaim" ELSE tdlog[i]]

\* C21: teardown issues its native calls in this order and no other:
\* getUserdata, the reclamation of the weak token, setUserdata(null), close,
\* release; the userdata is null when close is called, and release is the
\* last native call made on the connection.
C21_TeardownOrder ==
    /\ [](/\ Len(tdlog) <= Len(FullTeardown)
          /\ TeardownSteps = SubSeq(FullTeardown, 1, Len(tdlog)))
    /\ [][(tdlog' # tdlog /\ tdlog'[Len(tdlog')] = "close")
             => userdata = "null" /\ userdata' = "null"]_vars
    /\ [](conn = "released"
             => /\ tdlog = FullTeardown
                /\ td = "done"
                /\ inner = "freed"
                /\ handles = 0)
    /\ [][conn = "released"
             => /\ UNCHANGED <<conn, userdata, reg, tdlog, closes, raw_connection>>
                /\ (last' # last => ~last'.native)]_vars

\* close() was called on the handle, and the drop that followed went through
\* the five steps and released the connection
C21_Witness ==
    /\ conn = "released"
    /\ tdlog = FullTeardown
    /\ userdata = "null"
    /\ closes > 0
    /\ fault = "none"


\* the native entries the teardown goes through
TeardownEntries == {"getUserdata", "setUserdata", "close", "release"}

\* what the teardown has logged once it has passed `step`
LoggedAfter(step) ==
    CASE step = "getUserdata" -> {"getUserdata", "reclaim", "reclaim_null",
                                  "setUserdata", "close", "release"}
      [] step = "setUserdata" -> {"setUserdata", "close", "release"}
      [] step = "close"       -> {"close", "release"}
      [] step = "release"     -> {"release"}

\* the teardown stands before a step whose native entry is absent
AtAbsentStep == fault = "none" /\ td \in TeardownEntries /\ td \notin api

\* C22: when the native entry of a teardown step (getUserdata, setUserdata,
\* close or release) is absent, the teardown ends in the panic state at that
\* step: it returns no result, recoverable or other, and neither that step nor
\* any step after it is executed.
C22_TeardownFailureIsFatal ==
    /\ [][AtAbsentStep
             => /\ fault' = "panic:teardown"
                /\ UNCHANGED <<td, tdlog, last, conn, userdata, weak, inner>>]_vars
    /\ [](fault = "panic:teardown"
             => /\ td \in TeardownEntries \ api
                /\ \A i \in 1..Len(tdlog) : tdlog[i] \notin LoggedAfter(td)
                /\ conn = "open"
                /\ inner = "dropping")
    /\ [](td = "done" => TeardownEntries \subseteq api)

\* the teardown of a connection that was created and used panicked at the
\* absent release entry, after the close it had already issued
C22_Witness ==
    /\ fault = "panic:teardown"
    /\ td = "release"
    /\ "release" \notin api
    /\ tdlog = <<"getUserdata", "reclaim", "setUserdata", "close">>
    /\ ~creating
    /\ nextId > 1


\* a call of new_connection is over and gave the application no handle: it
\* returned an error, or the failure to install the userdata ended it
CreationFailed ==
    \/ last.op = "new_connection" /\ last.res # "ok" /\ inner \in {"none", "freed"}
    \/ creating /\ (fault # "none" \/ td = "done")

\* C23: whenever new_connection fails, no native connection obtained during
\* the call stays open without an owning handle and no weak token made during
\* the call stays unreclaimed, in particular when newConnection returned a
\* connection and installing the userdata failed.
C23_FailedCreationLeavesNothing ==
    CreationFailed => /\ conn \in {"none", "released"}
                      /\ weak = 0


\* number of events of kind k the host has fired
Fired(k) == Cardinality({i \in 1..Len(events) : events[i] = k})

\* number of events the host has fired for kinds with a closure registered
FiredRegistered ==
    (IF supplied["response"] THEN Fired("response") ELSE 0)
    + (IF supplied["header_received"] THEN Fired("header_received") ELSE 0)

\* C24: a dispatch removes or replaces no closure: a host event and the return
\* of a closure that called no setter leave the slot table and the native
\* registrations as they were, so a closure that stays registered is invoked
\* once for every firing of its event.
C24_DispatchKeepsClosure ==
    /\ [][(HostFires \/ Return) => UNCHANGED <<slots, reg, alive, supplied, nextId>>]_vars
    /\ []((inner = "live" /\ "getUserdata" \in api) => ran = FiredRegistered)

\* the host fired header_received twice and the closure, still in its slot,
\* was invoked twice
C24_Witness ==
    /\ inner = "live"
    /\ supplied["header_received"]
    /\ events = <<"header_received", "header_received">>
    /\ ran = 2
    /\ stack = <<>>
    /\ slots["header_received"] # 0
    /\ reg["header_received"]


\* the closures held by the slots
InSlots == {slots[k] : k \in Kinds} \ {0}

\* C25: a slot holds at most one closure: a setter call with Some(c2) on a
\* slot holding c1 drops c1 once and stores c2, and from then on the events of
\* that kind invoke c2 only.
C25_ReplacementDropsOld ==
    /\ [](inner = "live" => alive = InSlots)
    /\ [](\A j, k \in Kinds : (j # k /\ slots[j] # 0) => slots[j] # slots[k])
    /\ [][\A k \in Kinds : \A some \in BOOLEAN :
            (IF k = "header_received" THEN on_header_received(some)
                                      ELSE configure_simple_callback(k, some))
               => /\ slots'[k] = IF some THEN nextId ELSE 0
                  /\ slots[k] \notin alive'
                  /\ alive' \subseteq (alive \ {slots[k]}) \cup {nextId}]_vars
    /\ [][\A k \in Kinds :
            (HostFiresKind(k) /\ stack' # stack)
               => /\ stack' = Append(stack, [kind |-> k, id |-> slots[k]])
                  /\ slots[k] \in alive]_vars

\* on_response(Some(c1)) was followed by on_response(Some(c2)); c1 is dropped
\* and the response event that followed is running c2
C25_Witness ==
    /\ inner = "live"
    /\ slots["response"] = 2
    /\ alive = {2}
    /\ nextId = 3
    /\ stack = <<[kind |-> "response", id |-> 2]>>
    /\ ran = 1


\* the slot and the registration of kind k of connection c are as they were
SameEntry(c, k) ==
    /\ peers'[c].slots[k] = peers[c].slots[k]
    /\ peers'[c].reg[k] = peers[c].reg[k]

\* C26: the five event kinds are independent: a setter call for kind k on a
\* connection changes only slot k and the registration of k of that
\* connection, and a trampoline for kind k on a connection reads only slot k
\* of that connection; the other kinds and the other connections are
\* unchanged.
C26_KindsAndConnectionsIndependent ==
    /\ [][\A c \in Conns, k \in Kinds, some \in BOOLEAN :
            setter_on(c, k, some)
               => /\ \A c2 \in Conns, k2 \in Kinds :
                        (c2 # c \/ k2 # k) => SameEntry(c2, k2)
                  /\ peers'[c].slots[k] = IF some THEN nextId ELSE 0]_vars
    /\ [][\A c \in Conns, k \in Kinds :
            trampoline_on(c, k)
               => /\ peers' = peers
                  /\ invoked' = IF peers[c].slots[k] = 0 THEN <<>>
                                ELSE <<[conn |-> c, kind |-> k,
                                        id |-> peers[c].slots[k]]>>]_vars
    /\ [](\A c \in Conns, k \in Kinds : peers[c].reg[k] => peers[c].slots[k] # 0)

\* the first connection holds an on_response closure and the second an
\* on_header_received closure; the host fired header_received on the second
\* and its closure, and no other, was invoked
C26_Witness ==
    /\ peers[1].slots = [k \in Kinds |-> IF k = "response" THEN 1 ELSE 0]
    /\ peers[2].slots = [k \in Kinds |-> IF k = "header_received" THEN 2 ELSE 0]
    /\ peers[1].reg["response"]
    /\ invoked = <<[conn |-> 2, kind |-> "header_received", id |-> 2]>>


\* a native setter call is in progress
NativeInProgress == \E i \in 1..Len(stack) : stack[i].id = 0

\* a closure is executing
ClosureExecuting == \E i \in 1..Len(stack) : stack[i].id # 0

\* C27: in every interleaving of setter calls and nested trampoline dispatches
\* on one connection, the mutable borrow of the slot table is not held while a
\* closure is executing or a native call is in progress, and no borrow of the
\* table ever fails.
C27_BorrowNeverFails ==
    /\ (ClosureExecuting \/ NativeInProgress) => ~borrowed
    /\ fault # "panic:borrow"


\* the server or the purpose of a request has an embedded NUL
NulInText(o) == \E s \in o : HasNul(s)

\* C28: request_access with a server or a purpose that has an embedded NUL
\* returns an argument error before the native requestAccess is called and
\* before an AccessRequestState is allocated: nothing is boxed, nothing is
\* handed to the host, and the callback is never invoked.
C28_NulRejectedBeforeAllocation ==
    /\ [][nextReq' # nextReq
             => /\ last'.op = "request_access"
                /\ (NulInText(last'.args[1]) \/ NulInText(last'.args[2]))
                      => /\ last'.res = "argument_error"
                         /\ ~last'.native
                         /\ UNCHANGED <<accCb, accReply, accBox, accDrops, accHost,
                                        accCalls, accArg>>]_vars
    /\ [](\A r \in 1..MaxRequests :
             (accBox[r] # "none" \/ accCalls[r] > 0 \/ accHost[r] # "none")
                => (r < nextReq /\ accCb[r]))
    /\ []((last.op = "request_access" /\ last.res = "argument_error")
             => /\ NulInText(last.args[1]) \/ NulInText(last.args[2])
                /\ accBox[nextReq - 1] = "none"
                /\ accCalls[nextReq - 1] = 0
                /\ accHost[nextReq - 1] = "none")

\* a request with a callback and a NUL in its purpose was rejected: nothing
\* was boxed for it, while the request before it is pending with the host
C28_Witness ==
    /\ last.op = "request_access"
    /\ last.res = "argument_error"
    /\ last.args = <<{<<1>>}, {<<1, 0>>}, TRUE>>
    /\ nextReq = 3
    /\ accBox[2] = "none"
    /\ accHost[1] = "pending"


\* C29: the process-wide table is set once and never reinitialized: after a
\* successful Network::new no later call of Network::new changes the stored
\* table, and a call that fails leaves the stored table unchanged.
C29_TableSetOnce ==
    /\ [][NETWORK # Network_null => NETWORK' = NETWORK]_vars
    /\ [][(last'.op = "Network::new" /\ last'.res # "ok") => NETWORK' = NETWORK]_vars


\* the translations recorded: the last one and the one before it
Translations ==
    IF last.op = "describe_net_err"
    THEN {last.passed[i] : i \in 1..2} \ {NoTranslation}
    ELSE {}

\* C30: the translation of codes is total: every code of the closed set maps
\* to the tag of its own name, distinct codes map to distinct tags, and every
\* integer outside the set maps to the unknown-code tag that carries the
\* integer.
C30_TranslationTotalAndInjective ==
    /\ \A t \in Translations :
          /\ t.value \in NetErrCodes
                => \E n \in DOMAIN PDNetErr : PDNetErr[n] = t.value /\ t.tag = Named(n)
          /\ t.value \notin NetErrCodes => t.tag = Unknown(t.value)
    /\ \A s, t \in Translations : s.value # t.value => s.tag # t.tag
    /\ last.op = "describe_net_err" => (last.res = "ok" /\ fault = "none")

\* NET_CONNECTION_CLOSED was translated after the code below it, which the
\* table does not have
C30_Witness ==
    /\ last.op = "describe_net_err"
    /\ last.passed[1] = [value |-> -18, tag |-> Named("NET_CONNECTION_CLOSED")]
    /\ last.passed[2] = [value |-> -19, tag |-> Unknown(-19)]


\* the native calls a drop of the channel has to make for the boxes it holds:
\* a remove for every source and every effect, then freeChannel
RECURSIVE Removes(_, _)
Removes(v, entry) ==
    IF v = <<>> THEN <<>>
    ELSE <<[call |-> entry, arg |-> v[1]]>> \o Removes(Tail(v), entry)

C32_AssignedSampleNotFreed ==
    \A a \in freed : ~(player.live /\ player.assigned = a)


\* C33: the connection is never torn down while one of its closures is
\* executing: as long as a closure is on the stack the connection is live,
\* open and not in teardown, also when the application holds no handle any
\* more, and a teardown starts only in a step that leaves no closure running.
C33_NoTeardownWhileClosureRuns ==
    /\ [](stack # <<>>
            => /\ td = "idle"
               /\ inner = "live"
               /\ conn = "open"
               /\ strong >= Len(stack))
    /\ [][(td = "idle" /\ td' # "idle") => (stack' = <<>> /\ handles' = 0)]_vars

\* a closure is executing after the application dropped its last handle: the
\* reference of the trampoline is the only one left
C33_Witness ==
    /\ stack # <<>>
    /\ fault = "none"
    /\ handles = 0
    /\ strong = Len(stack)
    /\ inner = "live"
    /\ td = "idle"


\* C34: no closure of a connection is invoked once its teardown has begun: a
\* trampoline the host fires during the teardown starts no invocation and
\* changes no slot and no count, and the closures stay stored in the slot
\* table, allocated, until the teardown finishes.
C34_NoClosureAfterTeardownBegan ==
    [][/\ (td # "idle" /\ HostFires)
            => /\ stack' = <<>>
               /\ ran' = ran
               /\ slots' = slots
               /\ reg' = reg
               /\ strong' = 0
               /\ td' = td
       /\ (td \notin {"idle", "done"} /\ td' # "done")
            => (slots' = slots /\ alive' = alive)]_vars

\* the only event of the connection was fired during the teardown, at the
\* native close, for the response closure that is still stored and
\* registered, and the closure was not invoked
C34_Witness ==
    /\ "getUserdata" \in api
    /\ inner = "dropping"
    /\ td = "close"
    /\ userdata = "null"
    /\ events = <<"response">>
    /\ staleFired
    /\ reg["response"]
    /\ slots["response"] # 0
    /\ slots["response"] \in alive
    /\ ran = 0


\* C35: after the native release of a connection no native call takes its
\* pointer again: no handle and no dispatch is left that could issue one, and
\* no step changes what the host keeps for the connection or returns the
\* result of a native call.
C35_NothingAfterRelease ==
    /\ [](conn = "released"
            => /\ handles = 0
               /\ strong = 0
               /\ stack = <<>>
               /\ ~creating
               /\ userdata = "null"
               /\ tdlog[Len(tdlog)] = "release")
    /\ [][conn = "released"
            => /\ ~HostFires
               /\ UNCHANGED <<conn, tdlog, userdata, reg, closes, events, ran, nextReq,
                              strong, weak, stack, accVars>>
               /\ (last' # last => ~last'.native)]_vars

\* the connection was released after the application had sent a request and
\* a closure had run for its answer
C35_Witness ==
    /\ conn = "released"
    /\ fault = "none"
    /\ ran > 0
    /\ events # <<>>
    /\ last.native
    /\ handles = 0


\* C36: a closure is never entered re-entrantly: no two invocations in
\* progress at the same time are invocations of the same closure.
C36_NoReentrantInvocation ==
    \A i, j \in 1..Len(stack) : stack[i].id = stack[j].id => i = j


\* a step that is a call of set_enabled_with_callback, and what it was given
\* and returned
EnableCalled == Len(wifi'.log) = Len(wifi.log) + 1
SuppliedNow == Len(wifi'.log)
ReturnedNow == wifi'.log[Len(wifi'.log)]

\* closures that were accepted and have neither run nor been dropped
PendingCallbacks ==
    {c \in 1..Len(wifi.log) :
        wifi.log[c].res = "ok" /\ wifi.runs[c] = 0 /\ c \notin wifi.dropped}

\* closures that are executing
RunningCallbacks == {wifi.stack[i] : i \in 1..Len(wifi.stack)}

\* C37: at most one Wi-Fi enable callback is pending, the one in the slot;
\* set_enabled_with_callback called while one is pending returns an error,
\* makes no native call and leaves the pending callback in the slot and
\* uninvoked; called with flag = false it returns an error and changes
\* neither the slot nor the native calls.
C37_AtMostOnePending ==
    /\ [](/\ Cardinality(PendingCallbacks) <= 1
          /\ PendingCallbacks = IF NETWORK_ENABLE_CALLBACK = None_pending
                                THEN {} ELSE {NETWORK_ENABLE_CALLBACK})
    /\ [][EnableCalled =>
            /\ (ReturnedNow.flag /\ NETWORK_ENABLE_CALLBACK # None_pending)
                 => /\ ReturnedNow.res = "err_pending"
                    /\ wifi'.calls = wifi.calls
                    /\ NETWORK_ENABLE_CALLBACK' = NETWORK_ENABLE_CALLBACK
                    /\ wifi'.runs = wifi.runs
                    /\ wifi'.stack = wifi.stack
                    /\ wifi'.dropped = wifi.dropped \cup {SuppliedNow}
            /\ ~ReturnedNow.flag
                 => /\ ReturnedNow.res = "err_flag"
                    /\ wifi'.calls = wifi.calls
                    /\ NETWORK_ENABLE_CALLBACK' = NETWORK_ENABLE_CALLBACK
                    /\ wifi'.runs = wifi.runs
                    /\ wifi'.dropped = wifi.dropped \cup {SuppliedNow}]_vars

\* the first closure is pending and has not run, a second call was rejected
\* as still pending and a third for its flag
C37_Witness ==
    /\ NETWORK_ENABLE_CALLBACK = 1
    /\ wifi.runs[1] = 0
    /\ Len(wifi.log) = 3
    /\ wifi.log[1].res = "ok"
    /\ wifi.log[2].res = "err_pending"
    /\ wifi.log[3].res = "err_flag"
    /\ wifi.calls = 1
    /\ wifi.dropped = {2, 3}

\* C38: a registered Wi-Fi enable callback is one-shot: the invocation of the
\* trampoline that finds it takes it out of the slot and runs it, no closure
\* runs more than once, an invocation that finds nothing pending does nothing,
\* and a set_enabled_with_callback made while the slot is empty (also from
\* inside the running callback) is accepted when setEnabled is present.
C38_EnableCallbackOneShot ==
    /\ [](/\ \A c \in EnableCallbacks : wifi.runs[c] <= 1
          /\ NETWORK_ENABLE_CALLBACK \notin RunningCallbacks
          /\ \A c \in RunningCallbacks : wifi.runs[c] = 1 /\ c \notin wifi.dropped)
    /\ [][(wifi'.fired # wifi.fired) =>
            IF NETWORK_ENABLE_CALLBACK # None_pending
            THEN /\ NETWORK_ENABLE_CALLBACK' = None_pending
                 /\ wifi'.stack = Append(wifi.stack, NETWORK_ENABLE_CALLBACK)
                 /\ wifi'.runs[NETWORK_ENABLE_CALLBACK] = 1
            ELSE /\ wifi' = [wifi EXCEPT !.fired = @ + 1]
                 /\ UNCHANGED NETWORK_ENABLE_CALLBACK]_vars
    /\ [][(/\ EnableCalled
           /\ ReturnedNow.flag
           /\ "setEnabled" \in api
           /\ NETWORK_ENABLE_CALLBACK = None_pending)
            => /\ ReturnedNow.res = "ok"
               /\ NETWORK_ENABLE_CALLBACK' = SuppliedNow
               /\ wifi'.calls = wifi.calls + 1]_vars

\* the first closure is executing, the host called the trampoline again and
\* found nothing pending, and the second closure, supplied from inside the
\* first, was accepted and is pending
C38_Witness ==
    /\ wifi.stack = <<1>>
    /\ wifi.runs[1] = 1
    /\ wifi.fired = 2
    /\ NETWORK_ENABLE_CALLBACK = 2
    /\ wifi.log = <<[flag |-> TRUE, res |-> "ok"], [flag |-> TRUE, res |-> "ok"]>>

\* C39: when setEnabled is absent, set_enabled_with_callback(true, ..) returns
\* the configuration error, the slot is empty when it returns, and the
\* closure it was given is dropped without having run, so no later call is
\* rejected as still pending.
C39_AbsentEntryLeavesNothingPending ==
    /\ [][(EnableCalled /\ ReturnedNow.flag /\ "setEnabled" \notin api)
            => /\ ReturnedNow.res = "err_config"
               /\ NETWORK_ENABLE_CALLBACK' = None_pending
               /\ SuppliedNow \in wifi'.dropped
               /\ wifi'.runs[SuppliedNow] = 0
               /\ wifi'.calls = wifi.calls]_vars
    /\ []("setEnabled" \notin api
            => /\ NETWORK_ENABLE_CALLBACK = None_pending
               /\ \A c \in 1..Len(wifi.log) :
                     /\ wifi.log[c].res # "err_pending"
                     /\ wifi.runs[c] = 0
                     /\ c \in wifi.dropped)

\* setEnabled is absent and two calls in a row failed with the configuration
\* error, the second not being rejected as still pending
C39_Witness ==
    /\ "setEnabled" \notin api
    /\ Len(wifi.log) >= 2
    /\ wifi.log[1] = [flag |-> TRUE, res |-> "err_config"]
    /\ wifi.log[2] = [flag |-> TRUE, res |-> "err_config"]
    /\ wifi.dropped = 1..Len(wifi.log)
    /\ NETWORK_ENABLE_CALLBACK = None_pending

====
